---- MODULE Spec2Model ----
(***************************************************************************)
(* A model of the 9-ball referee of src/backend/game_manager.py:          *)
(* BallTracker (occlusion-tolerant pot confirmation) and GameManager      *)
(* (turns, fouls, pots, wins, turn snapshots).                            *)
(*                                                                         *)
(* The GameManager object is the record gm; its fields keep the names of  *)
(* the Python attributes.  Every method is an operator from the object    *)
(* (and the call's arguments) to the object after the call, so that a     *)
(* method that calls other methods is the composition the code executes.  *)
(* Methods that return a value yield [g |-> object, ret |-> value]; a     *)
(* Python exception is the return value Raised, with g the object as the  *)
(* exception leaves it.                                                    *)
(***************************************************************************)
EXTENDS Integers, Sequences, FiniteSets, TLC

VARIABLES
    gm,         \* the GameManager instance (with its BallTracker)
    last_call,  \* the most recent call on it: [op, arg, ret]
    now,        \* the wall clock read by datetime.now(), in seconds
    twin,       \* a second GameManager, given the same calls as gm
    srv,        \* main_game.py: the stop event, the detection tasks and
                \* the requests being handled
    motion_detector,    \* the MotionDetector of post_processor_thread
    pipe        \* zzmain.py: the three threads and the queues between them

vars == <<gm, last_call, now, twin, srv, motion_detector, pipe>>

\* the variables that the calls on gm alone leave as they are
elsewhere == <<twin, srv, motion_detector, pipe>>

(***************************************************************************)
(* Program constants.                                                      *)
(***************************************************************************)
MISSING_THRESHOLD == 10
SCRATCH_THRESHOLD == 10
max_snapshots == 5
\* self.movement_timeout, in seconds
movement_timeout == 3
LAST_BALL == 9
stable_frames == 15
\* max_gap of merge_sequential_collisions, as detect_collision passes it
max_gap == 2
\* DEFAULT_MOVE_THRESH = 0.3, as the fraction MOVE_THRESH_NUM / MOVE_THRESH_DEN
MOVE_THRESH_NUM == 3
MOVE_THRESH_DEN == 10
DEFAULT_CONTACT_MARGIN == 10
\* the proximity threshold of detect_collision, in pixels
PROXIMITY == 100
\* get_moving_balls looks at the frames idx+1 .. idx+LOOKAHEAD
LOOKAHEAD == 9
\* the name "cueball", among the ball numbers that stand for "bi<n>"
CUEBALL == 0
NINE == 9

Balls == 1..LAST_BALL

\* Python's None, for the Optional[int] and Optional[datetime] attributes
None == -1

(***************************************************************************)
(* Bounds of the model.                                                    *)
(***************************************************************************)
\* balls 1..MaxAbsentBall and ball 9 may be missing from a frame's detections
MaxAbsentBall == 1
\* a ball that is never the lowest within these bounds; collisions name it,
\* the balls 1..MaxAbsentBall+1 and ball 9
HighBall == 5
\* process_foul is not called on a player who has MaxFouls fouls already
MaxFouls == 1
\* process_potted_ball is not called once MaxPotsPerTurn balls are in last_potted_balls
MaxPotsPerTurn == 2
\* no new turn is opened once MaxTurns snapshots are held
MaxTurns == 3
\* at most MaxTasks detection tasks are created
MaxTasks == 3
\* at most MaxRequests HTTP requests are made
MaxRequests == 3
\* the queues of the pipeline hold QueueSize items (50 in zzmain.py)
QueueSize == 2
\* the video has at most MaxVideoFrames frames
MaxVideoFrames == 4
\* detect_motion is called up to MaxStill times in a row without movement
MaxStill == 16
\* a detection task reads at most MaxTaskFrames frames
MaxTaskFrames == 2
\* clips given to detect_collision hold up to MaxFrames frames
MaxFrames == 3
\* a ball given to get_moving_balls is out of sight for up to MaxGone frames
MaxGone == 11
\* lists given to merge_sequential_collisions hold up to MaxCollisions events
MaxCollisions == 4
\* their frame indices are 1..MaxCollisionFrame
MaxCollisionFrame == 5
\* frame indices passed to update_ball_tracking are 1..MaxFrameIdx
MaxFrameIdx == 1
\* check_cueball_scratch is not called once the cue ball has been missing for
\* MaxCueMissing calls
MaxCueMissing == 12
\* the clock runs from 0 to MaxNow seconds
MaxNow == 4

(***************************************************************************)
(* Sequence helpers (Python list operations).                              *)
(***************************************************************************)
SeqContains(s, x) == \E i \in 1..Len(s) : s[i] = x

\* list.remove(x): drops the first occurrence of x (callers test `x in list`)
ListRemove(s, x) ==
    IF ~SeqContains(s, x) THEN s
    ELSE LET i == CHOOSE k \in 1..Len(s) :
                    s[k] = x /\ \A j \in 1..(k - 1) : s[j] # x
         IN  SubSeq(s, 1, i - 1) \o SubSeq(s, i + 1, Len(s))

SetMin(S) == CHOOSE x \in S : \A y \in S : x <= y

(***************************************************************************)
(* Ball identifiers: a name is a string, modelled as its sequence of       *)
(* characters; int(ball_name.replace("bi", "")) is computed on it.         *)
(***************************************************************************)
DigitChars == <<"0", "1", "2", "3", "4", "5", "6", "7", "8", "9">>

IsDigit(c) == \E i \in 1..10 : DigitChars[i] = c

DigitValue(c) == (CHOOSE i \in 1..10 : DigitChars[i] = c) - 1

\* str.replace("bi", ""): every non-overlapping occurrence, left to right
RECURSIVE StrReplaceBi(_)
StrReplaceBi(s) ==
    IF Len(s) = 0 THEN s
    ELSE IF Len(s) >= 2 /\ s[1] = "b" /\ s[2] = "i"
         THEN StrReplaceBi(SubSeq(s, 3, Len(s)))
         ELSE <<s[1]>> \o StrReplaceBi(SubSeq(s, 2, Len(s)))

RECURSIVE DigitsValue(_)
DigitsValue(s) ==
    IF Len(s) = 0 THEN 0
    ELSE 10 * DigitsValue(SubSeq(s, 1, Len(s) - 1)) + DigitValue(s[Len(s)])

\* int(str) on a string of decimal digits; anything else raises ValueError
IntOk(s) == Len(s) > 0 /\ \A i \in 1..Len(s) : IsDigit(s[i])

\* the ball number of a name, or None when int() raises (the except branch)
ParseBall(name) ==
    LET t == StrReplaceBi(name)
    IN  IF IntOk(t) THEN DigitsValue(t) ELSE None

\* f"bi{ball_num}" for a ball number 0..9
BallName(n) == <<"b", "i", DigitChars[n + 1]>>

(***************************************************************************)
(* BallTracker                                                             *)
(***************************************************************************)
BallTracker_init ==
    [ball_states |->
        [b \in Balls |->
            [state |-> "on_table", missing_frames |-> 0, last_seen_frame |-> 0]],
     current_frame |-> 0]

\* BallTracker.reset: every ball back to on_table; current_frame is kept
BallTracker_reset(bt) ==
    [bt EXCEPT !.ball_states = BallTracker_init.ball_states]

\* the loop body without the test last_seen_frame > 0
TrackBall_without_seen_test(info, frame_idx, detected) ==
    IF detected
    THEN [state |-> "on_table", missing_frames |-> 0, last_seen_frame |-> frame_idx]
    ELSE IF info.state = "on_table"
         THEN [info EXCEPT !.state = "missing", !.missing_frames = 1]
         ELSE IF info.state = "missing"
              THEN IF info.missing_frames + 1 >= MISSING_THRESHOLD
                   THEN [info EXCEPT !.state = "potted",
                                     !.missing_frames = info.missing_frames + 1]
                   ELSE [info EXCEPT !.missing_frames = info.missing_frames + 1]
              ELSE info

\* the loop body confirming a pot one update late (> for >=)
TrackBall_confirming_late(info, frame_idx, detected) ==
    IF detected
    THEN [state |-> "on_table", missing_frames |-> 0, last_seen_frame |-> frame_idx]
    ELSE IF info.state = "on_table"
         THEN IF info.last_seen_frame > 0
              THEN [info EXCEPT !.state = "missing", !.missing_frames = 1]
              ELSE info
         ELSE IF info.state = "missing"
              THEN IF info.missing_frames + 1 > MISSING_THRESHOLD
                   THEN [info EXCEPT !.state = "potted",
                                     !.missing_frames = info.missing_frames + 1]
                   ELSE [info EXCEPT !.missing_frames = info.missing_frames + 1]
              ELSE info

\* the loop body as it would be if a POTTED ball that stays out of sight
\* went on counting its missing frames
TrackBall_counting_while_potted(info, frame_idx, detected) ==
    IF detected
    THEN [state |-> "on_table", missing_frames |-> 0, last_seen_frame |-> frame_idx]
    ELSE IF info.state = "on_table"
         THEN IF info.last_seen_frame > 0
              THEN [info EXCEPT !.state = "missing", !.missing_frames = 1]
              ELSE info
         ELSE IF info.state = "missing"
              THEN IF info.missing_frames + 1 >= MISSING_THRESHOLD
                   THEN [info EXCEPT !.state = "potted",
                                     !.missing_frames = info.missing_frames + 1]
                   ELSE [info EXCEPT !.missing_frames = info.missing_frames + 1]
              ELSE [info EXCEPT !.missing_frames = info.missing_frames + 1]

\* one iteration of the loop of BallTracker.update, for ball b
TrackBall(info, frame_idx, detected) ==
    IF detected
    THEN [state |-> "on_table", missing_frames |-> 0, last_seen_frame |-> frame_idx]
    ELSE IF info.state = "on_table"
         THEN IF info.last_seen_frame > 0
              THEN [info EXCEPT !.state = "missing", !.missing_frames = 1]
              ELSE info
         ELSE IF info.state = "missing"
              THEN IF info.missing_frames + 1 >= MISSING_THRESHOLD
                   THEN [info EXCEPT !.state = "potted",
                                     !.missing_frames = info.missing_frames + 1]
                   ELSE [info EXCEPT !.missing_frames = info.missing_frames + 1]
              ELSE info

\* range(1, 10), the order in which BallTracker.update visits the balls
BallRange == [i \in 1..LAST_BALL |-> i]

\* BallTracker.update reporting as reappeared only the balls that were MISSING
BallTracker_update_missing_only(bt, frame_idx, detected_set) ==
    LET old == bt.ball_states
        new == [b \in Balls |-> TrackBall(old[b], frame_idx, b \in detected_set)]
        WentMissing(b) == old[b].state = "on_table" /\ new[b].state = "missing"
        Confirmed(b) == old[b].state = "missing" /\ new[b].state = "potted"
        CameBack(b) == b \in detected_set /\ old[b].state = "missing"
    IN  [bt |-> [ball_states |-> new, current_frame |-> frame_idx],
         newly_missing |-> SelectSeq(BallRange, WentMissing),
         newly_potted |-> SelectSeq(BallRange, Confirmed),
         reappeared |-> SelectSeq(BallRange, CameBack)]

\* BallTracker.update(frame_idx, detected_balls)
BallTracker_update(bt, frame_idx, detected_set) ==
    LET old == bt.ball_states
        new == [b \in Balls |-> TrackBall(old[b], frame_idx, b \in detected_set)]
        WentMissing(b) == old[b].state = "on_table" /\ new[b].state = "missing"
        Confirmed(b) == old[b].state = "missing" /\ new[b].state = "potted"
        CameBack(b) == b \in detected_set /\ old[b].state \in {"missing", "potted"}
    IN  [bt |-> [ball_states |-> new, current_frame |-> frame_idx],
         newly_missing |-> SelectSeq(BallRange, WentMissing),
         newly_potted |-> SelectSeq(BallRange, Confirmed),
         reappeared |-> SelectSeq(BallRange, CameBack)]

\* BallTracker.is_on_table
is_on_table(bt, b) == bt.ball_states[b].state = "on_table"

(***************************************************************************)
(* Python indexing of self.players: indices -len..len-1 are valid, any     *)
(* other raises IndexError.                                                *)
(***************************************************************************)
PyIndexOk(s, i) == -Len(s) <= i /\ i < Len(s)

\* the 1-based position of Python index i
PyPos(s, i) == IF i >= 0 THEN i + 1 ELSE Len(s) + i + 1

(***************************************************************************)
(* Return values.  Every event dict is a record of the same shape; a key   *)
(* the dict does not hold has the default below.  has_foul_reason is the   *)
(* presence of the key "foul_reason"; events is the list a call returns.   *)
(***************************************************************************)
Ret(event) ==
    [event |-> event, ball |-> None, valid |-> FALSE, has_foul_reason |-> FALSE,
     in_grace_period |-> FALSE, pre_contact |-> FALSE, early_nine |-> FALSE,
     game_end |-> FALSE, player |-> None, events |-> <<>>]

\* an IndexError raised by self.players[...]
Raised == Ret("IndexError")

\* a method that returns None
RetNone == Ret("None")

(***************************************************************************)
(* GameManager                                                             *)
(***************************************************************************)
\* Player.__init__
Player_init == [potted_balls |-> <<>>, foul_count |-> 0, is_current |-> FALSE]

\* GameManager.__init__.  events holds what the call in progress has
\* appended to self.events (the log is append-only and no rule reads it);
\* current_snapshot is <<>> for None, else the one-element list of the copy.
GameManager_init ==
    [state |-> "idle",
     players |-> <<>>,
     current_player_idx |-> 0,
     balls_on_table |-> Balls,
     lowest_ball |-> 1,
     last_hit_ball |-> None,
     last_potted_balls |-> <<>>,
     match_id |-> None,
     start_time |-> None,
     game_start_timestamp |-> None,
     events |-> <<>>,
     last_movement_time |-> None,
     balls_moving |-> FALSE,
     first_contact |-> FALSE,
     ball_tracker |-> BallTracker_init,
     state_snapshots |-> <<>>,
     current_snapshot |-> <<>>,
     cueball_missing_frames |-> 0,
     cueball_scratched |-> FALSE]

\* GameManager._add_event
_add_event(g, event_type) == [g EXCEPT !.events = Append(g.events, event_type)]

\* GameManager.is_in_break_grace_period
is_in_break_grace_period(g) == Len(g.state_snapshots) <= 1

\* GameManager.create_turn_snapshot
create_turn_snapshot(g) ==
    LET snapshot ==
            [timestamp |-> now,
             turn_number |-> Len(g.state_snapshots) + 1,
             balls_on_table |-> g.balls_on_table,
             lowest_ball |-> g.lowest_ball,
             current_player_idx |-> g.current_player_idx,
             last_hit_ball |-> g.last_hit_ball,
             last_potted_balls |-> g.last_potted_balls,
             first_contact |-> g.first_contact,
             player1_potted |->
                IF Len(g.players) > 0 THEN g.players[1].potted_balls ELSE <<>>,
             player2_potted |->
                IF Len(g.players) > 1 THEN g.players[2].potted_balls ELSE <<>>,
             player1_fouls |->
                IF Len(g.players) > 0 THEN g.players[1].foul_count ELSE 0,
             player2_fouls |->
                IF Len(g.players) > 1 THEN g.players[2].foul_count ELSE 0]
        appended == Append(g.state_snapshots, snapshot)
    IN  [g EXCEPT
            !.state_snapshots =
                IF Len(appended) > max_snapshots THEN Tail(appended) ELSE appended,
            !.current_snapshot = <<snapshot>>]

\* GameManager._reset_turn_state
_reset_turn_state(g) ==
    create_turn_snapshot(
        [g EXCEPT !.last_hit_ball = None,
                  !.last_potted_balls = <<>>,
                  !.last_movement_time = None,
                  !.balls_moving = FALSE,
                  !.first_contact = FALSE])

\* _switch_turn as it would be if it did not open the new turn (no
\* _reset_turn_state)
_switch_turn_keeping_turn_state(g) ==
    LET old == PyPos(g.players, g.current_player_idx)
        idx == 1 - g.current_player_idx
        g1 == [g EXCEPT !.players[old].is_current = FALSE]
        g2 == [g1 EXCEPT !.current_player_idx = idx]
    IN  IF ~PyIndexOk(g.players, g.current_player_idx)
        THEN [g |-> g, ret |-> Raised]
        ELSE IF ~PyIndexOk(g.players, idx)
        THEN [g |-> g2, ret |-> Raised]
        ELSE [g |-> _add_event(
                        [g2 EXCEPT !.players[PyPos(g.players, idx)].is_current = TRUE],
                        "turn_change"),
              ret |-> [Ret("turn_change") EXCEPT !.player = idx]]

\* GameManager._switch_turn (callers have indexed self.players already)
_switch_turn(g) ==
    LET old == PyPos(g.players, g.current_player_idx)
        idx == 1 - g.current_player_idx
        g1 == [g EXCEPT !.players[old].is_current = FALSE]
        g2 == [g1 EXCEPT !.current_player_idx = idx]
    IN  IF ~PyIndexOk(g.players, g.current_player_idx)
        THEN [g |-> g, ret |-> Raised]
        ELSE IF ~PyIndexOk(g.players, idx)
        THEN [g |-> g2, ret |-> Raised]
        ELSE [g |-> _add_event(
                        _reset_turn_state(
                            [g2 EXCEPT !.players[PyPos(g.players, idx)].is_current = TRUE]),
                        "turn_change"),
              ret |-> [Ret("turn_change") EXCEPT !.player = idx]]

\* _update_lowest_ball as it would be if only confirmed pots were excluded
\* (a MISSING ball still counted as visible)
_update_lowest_ball_counting_missing(g) ==
    LET visible_balls == {b \in Balls : g.ball_tracker.ball_states[b].state # "potted"}
    IN  IF visible_balls # {}
        THEN [g EXCEPT !.lowest_ball = SetMin(visible_balls)]
        ELSE g

\* GameManager._update_lowest_ball
_update_lowest_ball(g) ==
    LET visible_balls == {b \in Balls : is_on_table(g.ball_tracker, b)}
    IN  IF visible_balls # {}
        THEN [g EXCEPT !.lowest_ball = SetMin(visible_balls)]
        ELSE g

\* GameManager._end_game (the match history file is outside the model)
_end_game(g, winner_idx) == _add_event([g EXCEPT !.state = "ended"], "game_end")

\* GameManager.start_game
start_game(g, starting_player) ==
    LET g1 == [g EXCEPT !.state = "playing",
                        !.match_id = now,
                        !.start_time = now,
                        !.game_start_timestamp = now,
                        !.players = <<Player_init, Player_init>>,
                        !.current_player_idx = starting_player]
        g2 == [g1 EXCEPT
                 !.players[PyPos(g1.players, starting_player)].is_current = TRUE,
                 !.balls_on_table = Balls,
                 !.lowest_ball = 1,
                 !.last_hit_ball = None,
                 !.last_potted_balls = <<>>,
                 !.events = <<>>,
                 !.first_contact = FALSE,
                 !.ball_tracker = BallTracker_reset(g.ball_tracker),
                 !.cueball_missing_frames = 0,
                 !.cueball_scratched = FALSE]
    IN  IF ~PyIndexOk(g1.players, starting_player)
        THEN [g |-> g1, ret |-> Raised]
        ELSE [g |-> _add_event(g2, "game_start"), ret |-> Ret("game_state")]

\* GameManager.reset_game
reset_game(g) ==
    [GameManager_init EXCEPT
        !.ball_tracker = BallTracker_reset(g.ball_tracker)]

\* process_collision as it would be if a later contact of the turn replaced
\* last_hit_ball
process_collision_overwriting(g, ball_name) ==
    LET ball_num == ParseBall(ball_name)
        g1 == [g EXCEPT !.last_hit_ball = ball_num, !.first_contact = TRUE]
        in_grace_period == is_in_break_grace_period(g1)
        is_valid_hit == IF in_grace_period THEN TRUE ELSE ball_num = g1.lowest_ball
    IN  IF ball_num = None
        THEN [g |-> g, ret |-> Ret("invalid_collision")]
        ELSE IF g.last_hit_ball = None
        THEN IF ~PyIndexOk(g1.players, g1.current_player_idx)
             THEN [g |-> g1, ret |-> Raised]
             ELSE [g |-> _add_event(g1, "collision"),
                   ret |-> [Ret("first_hit") EXCEPT
                                !.ball = ball_num,
                                !.valid = is_valid_hit,
                                !.player = g1.current_player_idx,
                                !.in_grace_period = in_grace_period,
                                !.has_foul_reason = ~is_valid_hit]]
        ELSE [g |-> g1, ret |-> [Ret("subsequent_hit") EXCEPT !.ball = ball_num]]

\* GameManager.process_collision
process_collision(g, ball_name) ==
    LET ball_num == ParseBall(ball_name)
        g1 == [g EXCEPT !.last_hit_ball = ball_num, !.first_contact = TRUE]
        in_grace_period == is_in_break_grace_period(g1)
        is_valid_hit == IF in_grace_period THEN TRUE ELSE ball_num = g1.lowest_ball
    IN  IF ball_num = None
        THEN [g |-> g, ret |-> Ret("invalid_collision")]
        ELSE IF g.last_hit_ball = None
        THEN IF ~PyIndexOk(g1.players, g1.current_player_idx)
             THEN [g |-> g1, ret |-> Raised]
             ELSE [g |-> _add_event(g1, "collision"),
                   ret |-> [Ret("first_hit") EXCEPT
                                !.ball = ball_num,
                                !.valid = is_valid_hit,
                                !.player = g1.current_player_idx,
                                !.in_grace_period = in_grace_period,
                                !.has_foul_reason = ~is_valid_hit]]
        ELSE [g |-> g, ret |-> [Ret("subsequent_hit") EXCEPT !.ball = ball_num]]

\* the pre-contact branch as it would be if the ball were credited to the
\* active player
PottedPreContact_scoring(g, ball_num) ==
    LET g1 == _update_lowest_ball(
                  [g EXCEPT !.balls_on_table = g.balls_on_table \ {ball_num}])
        g2 == [g1 EXCEPT !.last_potted_balls = Append(g1.last_potted_balls, ball_num)]
    IN  IF ~PyIndexOk(g.players, g.current_player_idx)
        THEN [g |-> g1, ret |-> Raised]
        ELSE [g |-> _add_event(
                        [g2 EXCEPT !.players[PyPos(g.players, g.current_player_idx)].potted_balls
                                       = Append(@, ball_num)],
                        "potted"),
              ret |-> [Ret("potted") EXCEPT
                          !.pre_contact = TRUE,
                          !.valid = FALSE,
                          !.ball = ball_num,
                          !.player = g.current_player_idx]]

\* GameManager.process_potted_ball, the branch `if not self.first_contact`
PottedPreContact(g, ball_num) ==
    LET g1 == _update_lowest_ball(
                  [g EXCEPT !.balls_on_table = g.balls_on_table \ {ball_num}])
        g2 == [g1 EXCEPT !.last_potted_balls = Append(g1.last_potted_balls, ball_num)]
    IN  IF ~PyIndexOk(g.players, g.current_player_idx)
        THEN [g |-> g1, ret |-> Raised]
        ELSE [g |-> _add_event(g2, "potted"),
              ret |-> [Ret("potted") EXCEPT
                          !.pre_contact = TRUE,
                          !.valid = FALSE,
                          !.ball = ball_num,
                          !.player = g.current_player_idx]]

\* GameManager.process_potted_ball, after the first contact of the turn
PottedPostContact(g, ball_num) ==
    LET is_valid == g.last_hit_ball = g.lowest_ball
        cur == PyPos(g.players, g.current_player_idx)
        g1 == [g EXCEPT !.last_potted_balls = Append(g.last_potted_balls, ball_num),
                        !.balls_on_table = g.balls_on_table \ {ball_num}]
        g2 == [g1 EXCEPT !.players[cur].potted_balls =
                            Append(g1.players[cur].potted_balls, ball_num)]
        is_nine_win == Cardinality(g2.balls_on_table) = 0 \/ g2.last_hit_ball = NINE
        returned == _update_lowest_ball(
                        [g2 EXCEPT !.balls_on_table = g2.balls_on_table \cup {NINE},
                                   !.players[cur].potted_balls =
                                        ListRemove(g2.players[cur].potted_balls, NINE)])
        event == [Ret("potted") EXCEPT !.ball = ball_num,
                                       !.valid = is_valid,
                                       !.player = g.current_player_idx]
    IN  IF ~PyIndexOk(g.players, g.current_player_idx)
        THEN [g |-> g1, ret |-> Raised]
        ELSE IF is_valid
        THEN IF ball_num = NINE
             THEN IF is_nine_win
                  THEN [g |-> _add_event(_end_game(g2, g2.current_player_idx), "potted"),
                        ret |-> [event EXCEPT !.game_end = TRUE]]
                  ELSE [g |-> _add_event(returned, "potted"),
                        ret |-> [event EXCEPT !.valid = FALSE,
                                              !.early_nine = TRUE,
                                              !.has_foul_reason = TRUE]]
             ELSE [g |-> _add_event(_update_lowest_ball(g2), "potted"), ret |-> event]
        ELSE [g |-> _add_event(g2, "potted"),
              ret |-> [event EXCEPT !.has_foul_reason = TRUE]]

\* GameManager.process_potted_ball
process_potted_ball(g, ball_name) ==
    LET ball_num == ParseBall(ball_name)
    IN  IF ball_num = None
        THEN [g |-> g, ret |-> Ret("invalid_pot")]
        ELSE IF ball_num \notin g.balls_on_table
        THEN [g |-> g, ret |-> [Ret("already_potted") EXCEPT !.ball = ball_num]]
        ELSE IF ~g.first_contact
        THEN PottedPreContact(g, ball_num)
        ELSE PottedPostContact(g, ball_num)

\* GameManager.process_ball_reappearance
process_ball_reappearance(g, ball_num) ==
    LET g1 == [g EXCEPT
                 !.balls_on_table = g.balls_on_table \cup {ball_num},
                 !.players = [i \in 1..Len(g.players) |->
                                [g.players[i] EXCEPT !.potted_balls =
                                    ListRemove(g.players[i].potted_balls, ball_num)]],
                 !.last_potted_balls = ListRemove(g.last_potted_balls, ball_num)]
    IN  [g |-> _add_event(_update_lowest_ball(g1), "ball_reappeared"),
         ret |-> [Ret("ball_reappeared") EXCEPT !.ball = ball_num]]

\* process_foul, from `self._switch_turn()` on: sw is what _switch_turn gave
FoulSwitched(sw, fouling_player) ==
    IF sw.ret = Raised
    THEN sw
    ELSE [g |-> sw.g, ret |-> [Ret("foul") EXCEPT !.player = fouling_player]]

\* process_foul as it would be if it applied revert_to_snapshot's restoration
\* of the table, the lowest ball and the potted lists before the turn change
process_foul_reverting(g) ==
    IF ~PyIndexOk(g.players, g.current_player_idx)
    THEN [g |-> g, ret |-> Raised]
    ELSE LET charged ==
                [g EXCEPT !.players[PyPos(g.players, g.current_player_idx)].foul_count
                              = @ + 1]
             reverted ==
                IF g.current_snapshot = <<>>
                THEN charged
                ELSE [charged EXCEPT
                        !.balls_on_table = g.current_snapshot[1].balls_on_table,
                        !.lowest_ball = g.current_snapshot[1].lowest_ball,
                        !.players[1].potted_balls = g.current_snapshot[1].player1_potted,
                        !.players[2].potted_balls = g.current_snapshot[1].player2_potted]
         IN  FoulSwitched(_switch_turn(_add_event(reverted, "foul")),
                          g.current_player_idx)

\* process_foul as it would be if the foul were charged after the turn
\* change, to the player who is active then
process_foul_after_switch(g) ==
    IF ~PyIndexOk(g.players, g.current_player_idx)
    THEN [g |-> g, ret |-> Raised]
    ELSE LET sw == _switch_turn(_add_event(g, "foul"))
         IN  IF sw.ret = Raised
             THEN sw
             ELSE [g |-> [sw.g EXCEPT
                            !.players[PyPos(sw.g.players, sw.g.current_player_idx)].foul_count
                                = @ + 1],
                   ret |-> [Ret("foul") EXCEPT !.player = g.current_player_idx]]

\* GameManager.process_foul (the foul log file is outside the model)
process_foul(g) ==
    IF ~PyIndexOk(g.players, g.current_player_idx)
    THEN [g |-> g, ret |-> Raised]
    ELSE FoulSwitched(
            _switch_turn(
                _add_event(
                    [g EXCEPT !.players[PyPos(g.players, g.current_player_idx)].foul_count
                                  = @ + 1],
                    "foul")),
            g.current_player_idx)

\* GameManager.finalize_turn
finalize_turn(g) ==
    IF ~PyIndexOk(g.players, g.current_player_idx)
    THEN [g |-> g, ret |-> Raised]
    ELSE IF g.last_potted_balls # <<>>
    THEN [g |-> _reset_turn_state(g),
          ret |-> [Ret("turn_continue") EXCEPT !.player = g.current_player_idx]]
    ELSE _switch_turn(g)

\* check_cueball_scratch, from `event.update(foul_event)` on: the update
\* overwrites the "event" key of the scratch event with that of the foul
\* event, and keeps its "foul_reason"
ScratchFouled(foul) ==
    IF foul.ret = Raised
    THEN foul
    ELSE [g |-> foul.g, ret |-> [foul.ret EXCEPT !.has_foul_reason = TRUE]]

\* check_cueball_scratch as it would be if the scratch were not one-shot
\* (no test of cueball_scratched)
check_cueball_scratch_retriggering(g, cueball_detected) ==
    IF cueball_detected
    THEN [g |-> [g EXCEPT !.cueball_missing_frames = 0, !.cueball_scratched = FALSE],
          ret |-> RetNone]
    ELSE IF g.cueball_missing_frames + 1 >= SCRATCH_THRESHOLD
    THEN IF ~PyIndexOk(g.players, g.current_player_idx)
         THEN [g |-> [g EXCEPT !.cueball_missing_frames = @ + 1,
                               !.cueball_scratched = TRUE],
               ret |-> Raised]
         ELSE ScratchFouled(
                 process_foul([g EXCEPT !.cueball_missing_frames = @ + 1,
                                        !.cueball_scratched = TRUE]))
    ELSE [g |-> [g EXCEPT !.cueball_missing_frames = @ + 1], ret |-> RetNone]

\* GameManager.check_cueball_scratch
check_cueball_scratch(g, cueball_detected) ==
    IF cueball_detected
    THEN [g |-> [g EXCEPT !.cueball_missing_frames = 0, !.cueball_scratched = FALSE],
          ret |-> RetNone]
    ELSE IF g.cueball_missing_frames + 1 >= SCRATCH_THRESHOLD /\ ~g.cueball_scratched
    THEN IF ~PyIndexOk(g.players, g.current_player_idx)
         THEN [g |-> [g EXCEPT !.cueball_missing_frames = @ + 1,
                               !.cueball_scratched = TRUE],
               ret |-> Raised]
         ELSE ScratchFouled(
                 process_foul([g EXCEPT !.cueball_missing_frames = @ + 1,
                                        !.cueball_scratched = TRUE]))
    ELSE [g |-> [g EXCEPT !.cueball_missing_frames = @ + 1], ret |-> RetNone]

\* update_ball_tracking: `for ball_num in result["newly_potted"]`; r is what
\* process_potted_ball gave for the ball before `rest`
RECURSIVE PotEach(_, _, _)
PotEach(r, rest, events) ==
    IF r.ret = Raised
    THEN [g |-> r.g, ret |-> Raised, events |-> events]
    ELSE IF rest = <<>>
    THEN [g |-> r.g, ret |-> RetNone,
          events |-> IF r.ret.event = "potted" THEN Append(events, r.ret) ELSE events]
    ELSE PotEach(process_potted_ball(r.g, BallName(Head(rest))),
                 Tail(rest),
                 IF r.ret.event = "potted" THEN Append(events, r.ret) ELSE events)

\* update_ball_tracking: `for ball_num in result["reappeared"]`; r is what
\* process_ball_reappearance gave for the ball before `rest`
RECURSIVE ReappearEach(_, _, _)
ReappearEach(r, rest, events) ==
    IF rest = <<>>
    THEN [g |-> r.g, ret |-> RetNone, events |-> Append(events, r.ret)]
    ELSE ReappearEach(process_ball_reappearance(r.g, Head(rest)),
                      Tail(rest),
                      Append(events, r.ret))

\* update_ball_tracking, from `scratch_event = self.check_cueball_scratch(...)` on
TrackingScratch(scratch, events) ==
    IF scratch.ret = Raised
    THEN scratch
    ELSE [g |-> scratch.g,
          ret |-> [Ret("tracking_events") EXCEPT
                      !.events = IF scratch.ret = RetNone
                                 THEN events
                                 ELSE Append(events, scratch.ret)]]

\* update_ball_tracking, after the loop over result["reappeared"]
TrackingReappearedDone(reapp, cueball_detected) ==
    TrackingScratch(check_cueball_scratch(reapp.g, cueball_detected), reapp.events)

\* update_ball_tracking, from the loop over result["reappeared"] on
TrackingReappeared(potted, reappeared, cueball_detected) ==
    IF potted.ret = Raised
    THEN [g |-> potted.g, ret |-> Raised]
    ELSE IF reappeared = <<>>
    THEN TrackingScratch(check_cueball_scratch(potted.g, cueball_detected),
                         potted.events)
    ELSE TrackingReappearedDone(
            ReappearEach(process_ball_reappearance(potted.g, Head(reappeared)),
                         Tail(reappeared), potted.events),
            cueball_detected)

\* update_ball_tracking, from the loop over result["newly_potted"] on
TrackingPotted(g, result, cueball_detected) ==
    LET missing == [i \in 1..Len(result.newly_missing) |->
                        [Ret("ball_missing") EXCEPT !.ball = result.newly_missing[i]]]
    IN  IF result.newly_potted = <<>>
        THEN TrackingReappeared([g |-> g, ret |-> RetNone, events |-> missing],
                                result.reappeared, cueball_detected)
        ELSE TrackingReappeared(
                PotEach(process_potted_ball(g, BallName(Head(result.newly_potted))),
                        Tail(result.newly_potted), missing),
                result.reappeared, cueball_detected)

\* update_ball_tracking, given the result of self.ball_tracker.update
TrackingResult(g, result, cueball_detected) ==
    TrackingPotted([g EXCEPT !.ball_tracker = result.bt], result, cueball_detected)

\* GameManager.update_ball_tracking; ret.events is the list it returns
update_ball_tracking(g, frame_idx, detected_balls, cueball_detected) ==
    TrackingResult(g, BallTracker_update(g.ball_tracker, frame_idx, detected_balls),
                   cueball_detected)

\* GameManager.check_movement_timeout (the shot log file is outside the
\* model; the log line reads self.players[self.current_player_idx].name)
check_movement_timeout(g) ==
    IF ~g.balls_moving /\ g.last_movement_time # None
    THEN IF now - g.last_movement_time > movement_timeout
         THEN IF ~PyIndexOk(g.players, g.current_player_idx)
              THEN [g |-> g, ret |-> Raised]
              ELSE IF g.last_potted_balls = <<>>
              THEN _switch_turn(g)
              ELSE finalize_turn(g)
         ELSE [g |-> g, ret |-> RetNone]
    ELSE [g |-> g, ret |-> RetNone]

\* GameManager.update_movement
update_movement(g, is_moving) ==
    IF is_moving
    THEN [g EXCEPT !.balls_moving = TRUE, !.last_movement_time = now]
    ELSE [g EXCEPT !.balls_moving = FALSE]

(***************************************************************************)
(* detect_collision.py.  A collision is [frame_idx, ball]; ball is the     *)
(* number n of the name "bi<n>" (one digit, so that the names sort as the  *)
(* numbers do).                                                            *)
(***************************************************************************)
\* key = (c["frame_idx"], c["ball"]["name"])
CollisionKey(c) == <<c.frame_idx, c.ball>>

\* tuple comparison of two keys
KeyLess(k1, k2) == k1[1] < k2[1] \/ (k1[1] = k2[1] /\ k1[2] < k2[2])

\* the first loop of merge_sequential_collisions: drop later duplicates
RECURSIVE UniqueCollisions(_, _)
UniqueCollisions(collisions, seen) ==
    IF collisions = <<>>
    THEN <<>>
    ELSE LET c == Head(collisions)
         IN  IF CollisionKey(c) \in seen
             THEN UniqueCollisions(Tail(collisions), seen)
             ELSE <<c>> \o UniqueCollisions(Tail(collisions),
                                            seen \cup {CollisionKey(c)})

\* c put into an ascending list behind every element whose key is not larger
RECURSIVE InsertByKey(_, _)
InsertByKey(c, sorted) ==
    IF sorted = <<>>
    THEN <<c>>
    ELSE IF KeyLess(CollisionKey(c), CollisionKey(Head(sorted)))
         THEN <<c>> \o sorted
         ELSE <<Head(sorted)>> \o InsertByKey(c, Tail(sorted))

\* sorted(unique_collisions, key=...): a stable ascending sort
RECURSIVE SortByKey(_)
SortByKey(list) ==
    IF list = <<>>
    THEN <<>>
    ELSE InsertByKey(list[Len(list)], SortByKey(SubSeq(list, 1, Len(list) - 1)))

\* the grouping loop from index i on; first is current_group[0]
RECURSIVE MergeFrom(_, _, _, _)
MergeFrom(sorted, i, first, merged) ==
    IF i > Len(sorted)
    THEN Append(merged, first)
    ELSE LET curr == sorted[i]
             prev == sorted[i - 1]
             same_ball == curr.ball = prev.ball
             frame_gap == curr.frame_idx - prev.frame_idx
         IN  IF same_ball /\ frame_gap <= max_gap
             THEN MergeFrom(sorted, i + 1, first, merged)
             ELSE MergeFrom(sorted, i + 1, curr, Append(merged, first))

\* merge_sequential_collisions(collisions, max_gap=2)
merge_sequential_collisions(collisions) ==
    IF collisions = <<>>
    THEN collisions
    ELSE LET sorted_collisions == SortByKey(UniqueCollisions(collisions, {}))
         IN  MergeFrom(sorted_collisions, 2, sorted_collisions[1], <<>>)

(***************************************************************************)
(* Detections are dicts [x, y, r]; a frame is [frame_idx, balls] where     *)
(* balls maps each name to its detection, or to NoBall when the frame has  *)
(* no detection of that name.  Distances are compared through their squares.  *)
(***************************************************************************)
\* the None that next(..., None) gives when the frame has no such ball
NoBall == [x |-> None, y |-> None, r |-> None]

\* next((b for b in balls if b["name"] == name), None)
Find(frame, name) == frame.balls[name]

\* distance(b1, b2) ** 2
Dist2(b1, b2) == (b1.x - b2.x) * (b1.x - b2.x) + (b1.y - b2.y) * (b1.y - b2.y)

\* distance(b1, b2) > t, for t >= 0
FartherThan(b1, b2, t) == Dist2(b1, b2) > t * t

\* distance(b1, b2) > r * move_thresh
MovedMoreThan(b1, b2, r) ==
    MOVE_THRESH_DEN * MOVE_THRESH_DEN * Dist2(b1, b2)
        > MOVE_THRESH_NUM * MOVE_THRESH_NUM * r * r

\* frames_data[idx], idx counted from 0
FrameAt(frames_data, idx) == frames_data[idx + 1]

\* the look-ahead loop answering False when the clip ends or the window
\* closes before the ball is seen again
RECURSIVE LookAhead_assuming_still(_, _, _, _, _)
LookAhead_assuming_still(frames_data, idx, ball_name, b_prev, offset) ==
    IF offset > LOOKAHEAD
    THEN FALSE
    ELSE IF idx + offset >= Len(frames_data)
    THEN FALSE
    ELSE LET b_next == Find(FrameAt(frames_data, idx + offset), ball_name)
         IN  IF b_next # NoBall
             THEN MovedMoreThan(b_next, b_prev, b_prev.r)
             ELSE LookAhead_assuming_still(frames_data, idx, ball_name, b_prev,
                                           offset + 1)

\* get_moving_balls, the loop `for offset in range(1, 10)` from offset on
RECURSIVE LookAhead(_, _, _, _, _)
LookAhead(frames_data, idx, ball_name, b_prev, offset) ==
    IF offset > LOOKAHEAD
    THEN TRUE
    ELSE IF idx + offset >= Len(frames_data)
    THEN TRUE
    ELSE LET b_next == Find(FrameAt(frames_data, idx + offset), ball_name)
         IN  IF b_next # NoBall
             THEN MovedMoreThan(b_next, b_prev, b_prev.r)
             ELSE LookAhead(frames_data, idx, ball_name, b_prev, offset + 1)

\* get_moving_balls(frames_data, idx, ball_name, move_thresh)
get_moving_balls(frames_data, idx, ball_name) ==
    IF idx - 1 < 0
    THEN FALSE
    ELSE LET b_prev == Find(FrameAt(frames_data, idx - 1), ball_name)
             b_curr == Find(FrameAt(frames_data, idx), ball_name)
         IN  IF b_prev = NoBall
             THEN FALSE
             ELSE IF b_curr # NoBall
             THEN MovedMoreThan(b_curr, b_prev, b_curr.r)
             ELSE LookAhead(frames_data, idx, ball_name, b_prev, 1)

\* the loop body without the contact gate
BallCollision_without_contact_gate(frames_data, i, ball_name) ==
    LET frame_data == FrameAt(frames_data, i)
        prev_frame == FrameAt(frames_data, i - 1)
        cueball == Find(frame_data, CUEBALL)
        prev_cueball == Find(prev_frame, CUEBALL)
        prev_b == Find(prev_frame, ball_name)
        b == Find(frame_data, ball_name)
        too_far == IF b # NoBall
                   THEN /\ FartherThan(prev_cueball, prev_b, PROXIMITY)
                        /\ FartherThan(cueball, b, PROXIMITY)
                   ELSE FartherThan(prev_cueball, prev_b, PROXIMITY)
    IN  IF prev_b = NoBall
        THEN <<>>
        ELSE IF too_far
        THEN <<>>
        ELSE IF ~get_moving_balls(frames_data, i, ball_name)
        THEN <<>>
        ELSE IF b # NoBall
        THEN <<[frame_idx |-> frame_data.frame_idx, cueball |-> cueball,
                ball |-> ball_name, ball_at |-> b]>>
        ELSE <<[frame_idx |-> prev_frame.frame_idx, cueball |-> prev_cueball,
                ball |-> ball_name, ball_at |-> prev_b]>>

\* the loop body recording every collision at frame N
BallCollision_always_at_current_frame(frames_data, i, ball_name) ==
    LET frame_data == FrameAt(frames_data, i)
        prev_frame == FrameAt(frames_data, i - 1)
        cueball == Find(frame_data, CUEBALL)
        prev_cueball == Find(prev_frame, CUEBALL)
        prev_b == Find(prev_frame, ball_name)
        b == Find(frame_data, ball_name)
        too_far == IF b # NoBall
                   THEN /\ FartherThan(prev_cueball, prev_b, PROXIMITY)
                        /\ FartherThan(cueball, b, PROXIMITY)
                   ELSE FartherThan(prev_cueball, prev_b, PROXIMITY)
    IN  IF prev_b = NoBall
        THEN <<>>
        ELSE IF too_far
        THEN <<>>
        ELSE IF FartherThan(cueball, prev_b,
                            cueball.r + prev_b.r + DEFAULT_CONTACT_MARGIN)
        THEN <<>>
        ELSE IF ~get_moving_balls(frames_data, i, ball_name)
        THEN <<>>
        ELSE <<[frame_idx |-> frame_data.frame_idx, cueball |-> cueball,
                ball |-> ball_name,
                ball_at |-> IF b # NoBall THEN b ELSE prev_b]>>

\* the body of the loop `for prev_b in prev_balls` of detect_collision, for
\* the ball named ball_name: the collisions it appends
BallCollision(frames_data, i, ball_name) ==
    LET frame_data == FrameAt(frames_data, i)
        prev_frame == FrameAt(frames_data, i - 1)
        cueball == Find(frame_data, CUEBALL)
        prev_cueball == Find(prev_frame, CUEBALL)
        prev_b == Find(prev_frame, ball_name)
        b == Find(frame_data, ball_name)
        too_far == IF b # NoBall
                   THEN /\ FartherThan(prev_cueball, prev_b, PROXIMITY)
                        /\ FartherThan(cueball, b, PROXIMITY)
                   ELSE FartherThan(prev_cueball, prev_b, PROXIMITY)
    IN  IF prev_b = NoBall
        THEN <<>>
        ELSE IF too_far
        THEN <<>>
        ELSE IF FartherThan(cueball, prev_b,
                            cueball.r + prev_b.r + DEFAULT_CONTACT_MARGIN)
        THEN <<>>
        ELSE IF ~get_moving_balls(frames_data, i, ball_name)
        THEN <<>>
        ELSE IF b # NoBall
        THEN <<[frame_idx |-> frame_data.frame_idx, cueball |-> cueball,
                ball |-> ball_name, ball_at |-> b]>>
        ELSE <<[frame_idx |-> prev_frame.frame_idx, cueball |-> prev_cueball,
                ball |-> ball_name, ball_at |-> prev_b]>>

\* the collisions appended for the balls of prev_frame from ball_name on
RECURSIVE BallsCollisions(_, _, _)
BallsCollisions(frames_data, i, ball_name) ==
    IF ball_name > LAST_BALL \/ ball_name \notin DOMAIN FrameAt(frames_data, i).balls
    THEN <<>>
    ELSE BallCollision(frames_data, i, ball_name)
            \o BallsCollisions(frames_data, i, ball_name + 1)

\* one iteration of the loop over frames_data: the collisions it appends
PairCollisions(frames_data, i) ==
    IF \/ Find(FrameAt(frames_data, i), CUEBALL) = NoBall
       \/ Find(FrameAt(frames_data, i - 1), CUEBALL) = NoBall
    THEN <<>>
    ELSE BallsCollisions(frames_data, i, CUEBALL + 1)

\* the list `collisions` of detect_collision before it is merged
RECURSIVE RecordedCollisions(_, _)
RecordedCollisions(frames_data, i) ==
    IF i >= Len(frames_data)
    THEN <<>>
    ELSE PairCollisions(frames_data, i) \o RecordedCollisions(frames_data, i + 1)

\* detect_collision(frames_data)
detect_collision(frames_data) ==
    merge_sequential_collisions(RecordedCollisions(frames_data, 1))

(***************************************************************************)
(* Inputs of the calls.                                                    *)
(***************************************************************************)
\* balls that a frame's detections may lack, and that process_potted_ball is called for
Absentable == (1..MaxAbsentBall) \cup {NINE}

\* names passed to process_collision
HitNames == {BallName(b) : b \in (1..(MaxAbsentBall + 1)) \cup {HighBall, NINE}}

\* names passed to process_potted_ball
PotNames == {BallName(b) : b \in Absentable}

\* the names "bi1".."bi9"
BallNames == {BallName(b) : b \in Balls}

\* identifiers that name no ball: "cueball", "bi", "bi0", "bi10", "12"
MalformedNames ==
    {<<"c", "u", "e", "b", "a", "l", "l">>,
     <<"b", "i">>,
     <<"b", "i", "0">>,
     <<"b", "i", "1", "0">>,
     <<"1", "2">>}

\* detected_balls of a frame in which ball 9 is seen
DetectedLow == {Balls \ S : S \in SUBSET (1..MaxAbsentBall)}

\* detected_balls of a frame in which the detector finds every ball or none
DetectedAllOrNone == {Balls, {}}

\* detected_balls of a frame: any of the absentable balls may be missing, or
\* the detector finds no ball at all
DetectedAny == {Balls \ S : S \in SUBSET Absentable} \cup {{}}

FrameIdxs == 1..MaxFrameIdx

\* the collisions a list may hold: two balls, frames 1..MaxCollisionFrame
CollisionEvents ==
    [frame_idx : 1..MaxCollisionFrame, ball : {SetMin(Balls), SetMin(Balls) + 1}]

\* a detection at x on the line y = 0, with radius r
Det(x, r) == [x |-> x, y |-> 0, r |-> r]

\* where the detector may report the cue ball or an object ball
Detections == {Det(0, 10), Det(2, 10), Det(40, 10), Det(40, 25), Det(150, 10)}

\* the detections within reach of a cue ball at the origin
NearDetections == {Det(0, 10), Det(2, 10), Det(40, 25)}

\* what the detector may report in one frame for the names in objects
FrameBalls(objects, detections) == [objects -> detections \cup {NoBall}]

\* the clip whose frames, numbered from 0, hold the detections in balls
Clip(balls) == [i \in 1..Len(balls) |-> [frame_idx |-> i - 1, balls |-> balls[i]]]

\* the cue ball and two object balls
TwoBalls == {CUEBALL, SetMin(Balls), SetMin(Balls) + 1}

\* the cue ball and one object ball
OneBall == {CUEBALL, SetMin(Balls)}

\* the object as a call finds it: nothing appended to the log by this call yet
Begin(g) == [g EXCEPT !.events = <<>>]

\* a new turn may still be opened within the bounds
TurnBound(g) == Len(g.state_snapshots) < MaxTurns

\* the active player may still be charged a foul within the bounds
FoulBound(g) ==
    PyIndexOk(g.players, g.current_player_idx)
        => g.players[PyPos(g.players, g.current_player_idx)].foul_count < MaxFouls

\* another pot may still be recorded this turn within the bounds
PotBound(g) == Len(g.last_potted_balls) < MaxPotsPerTurn

Call(op, arg, ret) == [op |-> op, arg |-> arg, ret |-> ret]

\* the call `op(arg)` returned r: the object and the record of the call
Returned(op, arg, r) ==
    /\ gm' = r.g
    /\ last_call' = Call(op, arg, r.ret)
    /\ UNCHANGED <<now, elsewhere>>

(***************************************************************************)
(* main_game.py: the asyncio event loop runs the request handlers and the  *)
(* detection tasks one at a time and switches between them where they      *)
(* await.  A task is [pc, frame_idx, game, invalid_hit]: pc is where it is *)
(* suspended, game counts the reset_game calls made when it was created.   *)
(* A request is [kind, pc, task]: task is the task a start request awaits. *)
(* last_frame records the frame index most recently handed to the manager  *)
(* since its last reset_game, 0 if none.                                   *)
(***************************************************************************)
NoTask == [pc |-> "none", frame_idx |-> 0, game |-> 0, invalid_hit |-> FALSE]

NoRequest == [kind |-> "none", pc |-> "idle", task |-> None]

\* the globals of main_game.py when the module has been loaded
ServerInit ==
    [stop_event |-> FALSE,
     active |-> None,
     tasks |-> [t \in 1..MaxTasks |-> NoTask],
     reqs |-> [r \in 1..MaxRequests |-> NoRequest],
     resets |-> 0,
     last_frame |-> 0]

\* task.done()
TaskDone(s, t) == s.tasks[t].pc \in {"done", "cancelled"}

\* the slots of tasks not created yet
FreeTasks(s) == {t \in 1..MaxTasks : s.tasks[t].pc = "none"}

(***************************************************************************)
(* core/motion_detector.py.  What detect_motion computes from the tracked  *)
(* positions is given to it here: any_active is `active_balls` being non   *)
(* empty, is_moving is `len(moving_balls) > 0`, cue_tracked is             *)
(* `'cue' in current_balls`.                                               *)
(***************************************************************************)
\* MotionDetector.__init__
MotionDetector_init ==
    [stable_count |-> 0, is_shooting |-> FALSE, shot_start_frame |-> None]

\* MotionDetector.detect_motion: the detector after the call and the
\* shot_started it returns.  The statement `if is_moving: ... else: ...`
\* that counts the stable frames is in the body of
\* `if is_moving and 'cue' in current_balls:`
detect_motion(md, any_active, is_moving, cue_tracked, frame_id) ==
    IF ~any_active
    THEN [md |-> md, shot_started |-> FALSE]
    ELSE IF is_moving /\ cue_tracked
    THEN IF is_moving
         THEN IF ~md.is_shooting
              THEN [md |-> [stable_count |-> 0, is_shooting |-> TRUE,
                            shot_start_frame |-> frame_id],
                    shot_started |-> TRUE]
              ELSE [md |-> [md EXCEPT !.stable_count = 0], shot_started |-> FALSE]
         ELSE [md |-> [md EXCEPT !.stable_count = @ + 1,
                                 !.is_shooting =
                                    IF md.stable_count + 1 >= stable_frames /\ md.is_shooting
                                    THEN FALSE ELSE @],
               shot_started |-> FALSE]
    ELSE [md |-> md, shot_started |-> FALSE]

\* MotionDetector.is_shot_ended
is_shot_ended(md) == ~md.is_shooting /\ md.shot_start_frame # None

(***************************************************************************)
(* zzmain.py: capture_thread, detect_thread and post_processor_thread.     *)
(* A thread is "running" at the head of its loop, "done" when it has       *)
(* returned, or blocked in the put named by its state.  The queues hold    *)
(* frame ids, and None for the end marker.                                 *)
(***************************************************************************)
PipelineInit ==
    [capture |-> "running", frame_id |-> 0, frame_queue |-> <<>>,
     detect |-> "running", data |-> None, detect_queue |-> <<>>,
     rel_frame_queue |-> <<>>, post |-> "running"]

\* queue.full()
Full(q) == Len(q) >= QueueSize

Init ==
    /\ gm = GameManager_init
    /\ last_call = Call("__init__", None, RetNone)
    /\ now = 0
    /\ twin = GameManager_init
    /\ srv = ServerInit
    /\ motion_detector = MotionDetector_init
    /\ pipe = PipelineInit

Playing == gm.state = "playing"

(***************************************************************************)
(* One action per call on the GameManager.                                 *)
(***************************************************************************)
StartGameCall ==
    \E starting_player \in {0, 1} :
        Returned("start_game", starting_player, start_game(Begin(gm), starting_player))

\* start_game with any starting_player the caller passes, 2 included
StartGameAnyCall ==
    \E starting_player \in {0, 1, 2} :
        Returned("start_game", starting_player, start_game(Begin(gm), starting_player))

ResetGameCall ==
    /\ gm' = reset_game(Begin(gm))
    /\ last_call' = Call("reset_game", None, RetNone)
    /\ UNCHANGED <<now, elsewhere>>

ProcessCollisionCall(names) ==
    \E ball_name \in names :
        Returned("process_collision", ball_name,
                 process_collision(Begin(gm), ball_name))

ProcessPottedBallCall(names) ==
    /\ PotBound(gm)
    /\ \E ball_name \in names :
        Returned("process_potted_ball", ball_name,
                 process_potted_ball(Begin(gm), ball_name))

ProcessBallReappearanceCall(balls) ==
    \E ball_num \in balls :
        Returned("process_ball_reappearance", ball_num,
                 process_ball_reappearance(Begin(gm), ball_num))

ProcessFoulCall ==
    /\ TurnBound(gm)
    /\ FoulBound(gm)
    /\ Returned("process_foul", None, process_foul(Begin(gm)))

FinalizeTurnCall ==
    /\ TurnBound(gm)
    /\ Returned("finalize_turn", None, finalize_turn(Begin(gm)))

UpdateMovementCall ==
    \E is_moving \in BOOLEAN :
        /\ gm' = update_movement(Begin(gm), is_moving)
        /\ last_call' = Call("update_movement", is_moving, RetNone)
        /\ UNCHANGED <<now, elsewhere>>

UpdateBallTrackingCall(detections) ==
    \E frame_idx \in FrameIdxs, detected \in detections :
        Returned("update_ball_tracking", None,
                 update_ball_tracking(Begin(gm), frame_idx, detected, TRUE))

UpdateLowestBallCall ==
    /\ gm' = _update_lowest_ball(Begin(gm))
    /\ last_call' = Call("_update_lowest_ball", None, RetNone)
    /\ UNCHANGED <<now, elsewhere>>

CheckCueballScratchCall ==
    /\ FoulBound(gm)
    /\ gm.cueball_missing_frames < MaxCueMissing
    /\ \E cueball_detected \in BOOLEAN :
        Returned("check_cueball_scratch", cueball_detected,
                 check_cueball_scratch(Begin(gm), cueball_detected))

CheckMovementTimeoutCall ==
    /\ TurnBound(gm)
    /\ Returned("check_movement_timeout", None, check_movement_timeout(Begin(gm)))

\* a second passes on the clock that datetime.now() reads
Tick ==
    /\ now < MaxNow
    /\ now' = now + 1
    /\ UNCHANGED <<gm, last_call, elsewhere>>

SwitchTurnCall ==
    /\ TurnBound(gm)
    /\ Returned("_switch_turn", None, _switch_turn(Begin(gm)))

\* finalize_turn, however many turns have been played
FinalizeTurnAnyCall ==
    Returned("finalize_turn", None, finalize_turn(Begin(gm)))

\* frame indices passed to BallTracker.update directly, 0 included
TrackerFrameIdxs == 0..MaxFrameIdx

\* BallTracker.update called on the manager's tracker; the record of the
\* call keeps the arguments and the three lists returned
BallTrackerUpdateCall ==
    \E frame_idx \in TrackerFrameIdxs, detected \in DetectedAny :
        LET r == BallTracker_update(gm.ball_tracker, frame_idx, detected)
        IN  /\ gm' = [Begin(gm) EXCEPT !.ball_tracker = r.bt]
            /\ last_call' = Call("BallTracker.update",
                                 [frame_idx |-> frame_idx, detected_balls |-> detected],
                                 [newly_missing |-> r.newly_missing,
                                  newly_potted |-> r.newly_potted,
                                  reappeared |-> r.reappeared])
            /\ UNCHANGED <<now, elsewhere>>

BallTrackerResetCall ==
    /\ gm' = [Begin(gm) EXCEPT !.ball_tracker = BallTracker_reset(gm.ball_tracker)]
    /\ last_call' = Call("BallTracker.reset", None, RetNone)
    /\ UNCHANGED <<now, elsewhere>>

\* process_potted_ball for the lowest ball still in balls_on_table
PotLowestCall ==
    /\ gm.balls_on_table # {}
    /\ Returned("process_potted_ball", BallName(SetMin(gm.balls_on_table)),
                process_potted_ball(Begin(gm), BallName(SetMin(gm.balls_on_table))))

\* the ball whose detection drops out for a few frames
Blinker == SetMin(Balls)

\* detected_balls of a frame: ball 9 may be out of sight, with it the
\* blinker, and with both the ball above the blinker
DetectedBlink ==
    {Balls, Balls \ {NINE}, Balls \ {Blinker, NINE},
     Balls \ {Blinker, Blinker + 1, NINE}}

\* start_game on both managers
BlinkStartCall ==
    \E starting_player \in {0, 1} :
        LET r == start_game(Begin(gm), starting_player)
        IN  /\ gm' = r.g
            /\ twin' = start_game(Begin(twin), starting_player).g
            /\ last_call' = Call("start_game", starting_player, r.ret)
            /\ UNCHANGED <<now, srv, motion_detector, pipe>>

\* process_collision on both managers
BlinkCollisionCall(names) ==
    \E ball_name \in names :
        LET r == process_collision(Begin(gm), ball_name)
        IN  /\ gm' = r.g
            /\ twin' = process_collision(Begin(twin), ball_name).g
            /\ last_call' = Call("process_collision", ball_name, r.ret)
            /\ UNCHANGED <<now, srv, motion_detector, pipe>>

\* update_ball_tracking on both managers with the same frame, except that
\* the twin's detector never loses the blinker; gm's detector loses it for
\* fewer than MISSING_THRESHOLD frames in a row
BlinkTrackingCall ==
    \E frame_idx \in FrameIdxs, detected \in DetectedBlink :
        LET r == update_ball_tracking(Begin(gm), frame_idx, detected, TRUE)
        IN  /\ Blinker \notin detected
                 => gm.ball_tracker.ball_states[Blinker].missing_frames
                        < MISSING_THRESHOLD - 1
            /\ gm' = r.g
            /\ twin' = update_ball_tracking(Begin(twin), frame_idx,
                                            detected \cup {Blinker}, TRUE).g
            /\ last_call' = Call("update_ball_tracking", detected, r.ret)
            /\ UNCHANGED <<now, srv, motion_detector, pipe>>

\* detected_balls of a frame during a run of pots: the lowest ball may have
\* gone, and with it the next one
DetectedRun ==
    {Balls, Balls \ {SetMin(Balls)}, Balls \ {SetMin(Balls), SetMin(Balls) + 1}}

\* process_collision called with the ball that is the lowest on the table
LowestContactCall ==
    /\ gm.balls_on_table # {}
    /\ gm.lowest_ball = SetMin(gm.balls_on_table)
    /\ Returned("process_collision", BallName(gm.lowest_ball),
                process_collision(Begin(gm), BallName(gm.lowest_ball)))

\* nothing has been called yet
Fresh == last_call.op = "__init__"

\* merge_sequential_collisions called on a list of collisions
MergeCall ==
    /\ Fresh
    /\ \E n \in 0..MaxCollisions : \E collisions \in [1..n -> CollisionEvents] :
        /\ last_call' = Call("merge_sequential_collisions", collisions,
                             merge_sequential_collisions(collisions))
        /\ UNCHANGED <<gm, now, elsewhere>>

\* detect_collision called on a clip; the record of the call keeps what each
\* iteration of the loop over the frames appended, the list before merging
\* and the list returned
DetectCollisionCall(objects, detections) ==
    /\ Fresh
    /\ \E n \in 1..MaxFrames : \E balls \in [1..n -> FrameBalls(objects, detections)] :
        LET frames_data == Clip(balls)
        IN  /\ last_call' = Call("detect_collision", frames_data,
                                 [by_pair |-> [i \in 1..(n - 1) |->
                                                 PairCollisions(frames_data, i)],
                                  recorded |-> RecordedCollisions(frames_data, 1),
                                  returned |-> detect_collision(frames_data)])
            /\ UNCHANGED <<gm, now, elsewhere>>

\* collision_id = (coll["frame_id"], ball_name)
CollisionId(coll) == <<coll.frame_idx, coll.ball>>

\* real_time_detection_task, the loop `for coll in collisions`: the
\* collisions whose id is not in processed_collision_ids are handed to
\* process_collision and their ids added
RECURSIVE HandNewCollisions(_, _, _)
HandNewCollisions(collisions, processed_collision_ids, handed) ==
    IF collisions = <<>>
    THEN [processed_collision_ids |-> processed_collision_ids, handed |-> handed]
    ELSE IF CollisionId(Head(collisions)) \in processed_collision_ids
    THEN HandNewCollisions(Tail(collisions), processed_collision_ids, handed)
    ELSE HandNewCollisions(Tail(collisions),
                           processed_collision_ids \cup {CollisionId(Head(collisions))},
                           Append(handed, Head(collisions)))

\* real_time_detection_task over the frames read: after frame k is appended
\* to frames_buffer, detect_collision runs over the whole buffer if it holds
\* two frames or more
RECURSIVE RealTimeCollisions(_, _, _)
RealTimeCollisions(frames, k, done) ==
    IF k > Len(frames)
    THEN done.handed
    ELSE RealTimeCollisions(frames, k + 1,
            IF k >= 2
            THEN HandNewCollisions(detect_collision(SubSeq(frames, 1, k)),
                                   done.processed_collision_ids, done.handed)
            ELSE done)

\* frames_buffer when the frames holding the detections in balls were read:
\* frame_idx counts from 1
FramesBuffer(balls) == [i \in 1..Len(balls) |-> [frame_idx |-> i, balls |-> balls[i]]]

\* the collision handling of the real-time loop over a video, and one run
\* of detect_collision over all the frames of the video
RealTimeCollisionsCall(objects, detections) ==
    /\ Fresh
    /\ \E n \in 1..MaxFrames : \E balls \in [1..n -> FrameBalls(objects, detections)] :
        LET frames == FramesBuffer(balls)
        IN  /\ last_call' = Call("real_time_detection_task", frames,
                                 [handed |-> RealTimeCollisions(frames, 1,
                                                [processed_collision_ids |-> {},
                                                 handed |-> <<>>]),
                                  complete |-> detect_collision(frames)])
            /\ UNCHANGED <<gm, now, elsewhere>>

\* the detect_motion calls in a row, this one included, in which no ball
\* moved
StillCalls(is_moving) ==
    IF is_moving
    THEN 0
    ELSE IF last_call.op = "detect_motion" THEN last_call.ret.still + 1 ELSE 1

\* post_processor_thread calls motion_detector.detect_motion for a frame;
\* the record of the call keeps shot_started and the calls without movement
DetectMotionCall ==
    \E any_active \in BOOLEAN, is_moving \in BOOLEAN, cue_tracked \in BOOLEAN,
       frame_id \in FrameIdxs :
        LET r == detect_motion(motion_detector, any_active, is_moving, cue_tracked,
                               frame_id)
        IN  /\ StillCalls(is_moving) <= MaxStill
            /\ motion_detector' = r.md
            /\ last_call' = Call("detect_motion",
                                 [any_active |-> any_active, is_moving |-> is_moving,
                                  cue_tracked |-> cue_tracked],
                                 [shot_started |-> r.shot_started,
                                  still |-> StillCalls(is_moving)])
            /\ UNCHANGED <<gm, now, twin, srv, pipe>>

\* a step of the pipeline
PipelineStep(p) ==
    /\ pipe' = p
    /\ UNCHANGED <<gm, last_call, now, twin, srv, motion_detector>>

\* capture_thread, one iteration with frame_queue not full (with the queue
\* full it sleeps and tests again): a frame is read and put, or the video
\* has ended and None is put
CaptureStep ==
    /\ pipe.capture = "running"
    /\ ~Full(pipe.frame_queue)
    /\ \/ /\ pipe.frame_id < MaxVideoFrames
          /\ PipelineStep([pipe EXCEPT !.frame_queue = Append(@, pipe.frame_id),
                                       !.frame_id = @ + 1])
       \/ PipelineStep([pipe EXCEPT !.frame_queue = Append(@, None),
                                    !.capture = "done"])

\* detect_thread: frame_queue.get(timeout=2) returns an item
DetectGet ==
    /\ pipe.detect = "running"
    /\ pipe.frame_queue # <<>>
    /\ PipelineStep([pipe EXCEPT !.frame_queue = Tail(@),
                                 !.data = Head(pipe.frame_queue),
                                 !.detect = IF Head(pipe.frame_queue) = None
                                            THEN "put None"
                                            ELSE "rel_frame_queue.put"])

\* detect_thread: frame_queue.get(timeout=2) raises queue.Empty
DetectTimeout ==
    /\ pipe.detect = "running"
    /\ pipe.frame_queue = <<>>
    /\ PipelineStep([pipe EXCEPT !.detect = "put None"])

\* detect_thread: rel_frame_queue.put(data), then the prediction, which
\* may raise
DetectRelPut ==
    /\ pipe.detect = "rel_frame_queue.put"
    /\ ~Full(pipe.rel_frame_queue)
    /\ \E raised \in BOOLEAN :
        PipelineStep([pipe EXCEPT !.rel_frame_queue = Append(@, pipe.data),
                                 !.detect = IF raised THEN "running"
                                            ELSE "detect_queue.put"])

\* detect_thread: detect_queue.put((frame_id, detections))
DetectPut ==
    /\ pipe.detect = "detect_queue.put"
    /\ ~Full(pipe.detect_queue)
    /\ PipelineStep([pipe EXCEPT !.detect_queue = Append(@, pipe.data),
                                 !.detect = "running"])

\* detect_thread, after the loop: detect_queue.put(None)
DetectEnd ==
    /\ pipe.detect = "put None"
    /\ ~Full(pipe.detect_queue)
    /\ PipelineStep([pipe EXCEPT !.detect_queue = Append(@, None),
                                 !.detect = "done"])

\* post_processor_thread, one iteration in which detect_queue.get returns
\* an item (on queue.Empty it sleeps and tries again).  After a frame it
\* takes a frame from rel_frame_queue for display, unless an exception
\* sent it back to the head of the loop before that; the quit key ends it
PostStep ==
    /\ pipe.post = "running"
    /\ pipe.detect_queue # <<>>
    /\ IF Head(pipe.detect_queue) = None
       THEN PipelineStep([pipe EXCEPT !.detect_queue = Tail(@), !.post = "done"])
       ELSE \E outcome \in {"displayed", "raised", "quit"} :
              PipelineStep([pipe EXCEPT
                  !.detect_queue = Tail(@),
                  !.rel_frame_queue = IF outcome = "raised" \/ @ = <<>>
                                      THEN @ ELSE Tail(@),
                  !.post = IF outcome = "quit" THEN "done" ELSE "running"])

\* a frame in which the only detection is that of the ball named name
FrameOf(name, detection) == [c \in {CUEBALL, name} |-> IF c = name THEN detection ELSE NoBall]

\* get_moving_balls(frames_data, 1, name) on a clip in which the ball is
\* seen in frame 0, is out of sight for gone frames, and is then reported
\* as again and as later (NoBall: the clip ends there)
GetMovingBallsCall ==
    /\ Fresh
    /\ \E gone \in 0..MaxGone, b_prev \in Detections,
          again \in Detections \cup {NoBall}, later \in Detections \cup {NoBall} :
        LET name == SetMin(Balls)
            seen == [i \in 1..(gone + 1) |->
                        FrameOf(name, IF i = 1 THEN b_prev ELSE NoBall)]
            rest == IF again = NoBall
                    THEN <<>>
                    ELSE IF later = NoBall
                    THEN <<FrameOf(name, again)>>
                    ELSE <<FrameOf(name, again), FrameOf(name, later)>>
            frames_data == Clip(seen \o rest)
        IN  /\ Len(frames_data) >= 2
            /\ last_call' = Call("get_moving_balls",
                                 [frames_data |-> frames_data, idx |-> 1,
                                  ball_name |-> name],
                                 get_moving_balls(frames_data, 1, name))
            /\ UNCHANGED <<gm, now, elsewhere>>

\* a step of main_game.py: the globals, the manager and the record of the step
ServerStep(op, arg, s, g) ==
    /\ srv' = s
    /\ gm' = g
    /\ last_call' = Call(op, arg, RetNone)
    /\ UNCHANGED <<now, twin, motion_detector, pipe>>

\* the requests arrive one after the other
Arrives(r) ==
    /\ srv.reqs[r].pc = "idle"
    /\ \A q \in 1..(r - 1) : srv.reqs[q].pc # "idle"

\* /api/game/start from `active_detection_task = None` / `detection_stop_event
\* .clear()` to the return: reset, start the game, create the task
StartGameBody(r) ==
    LET t == SetMin(FreeTasks(srv))
    IN  /\ FreeTasks(srv) # {}
        /\ ServerStep("/api/game/start", r,
              [srv EXCEPT !.stop_event = FALSE,
                          !.active = t,
                          !.tasks[t] = [NoTask EXCEPT !.pc = "created",
                                                      !.game = srv.resets + 1],
                          !.resets = @ + 1,
                          !.last_frame = 0,
                          !.reqs[r] = [kind |-> "start", pc |-> "done", task |-> None]],
              start_game(Begin(reset_game(gm)), 0).g)

\* /api/game/start up to its first await
StartRequest ==
    \E r \in 1..MaxRequests :
        /\ Arrives(r)
        /\ IF srv.active # None /\ ~TaskDone(srv, srv.active)
           THEN ServerStep("/api/game/start", r,
                    [srv EXCEPT !.stop_event = TRUE,
                                !.reqs[r] = [kind |-> "start", pc |-> "waiting",
                                             task |-> srv.active]],
                    gm)
           ELSE StartGameBody(r)

\* /api/game/start resumed when the task it awaits has finished
StartResume ==
    \E r \in 1..MaxRequests :
        /\ srv.reqs[r].kind = "start"
        /\ srv.reqs[r].pc = "waiting"
        /\ TaskDone(srv, srv.reqs[r].task)
        /\ StartGameBody(r)

\* asyncio.wait_for(task, timeout=2.0) times out: the task is cancelled at
\* the await where it is suspended
WaitForTimeout ==
    \E r \in 1..MaxRequests :
        /\ srv.reqs[r].kind = "start"
        /\ srv.reqs[r].pc = "waiting"
        /\ ~TaskDone(srv, srv.reqs[r].task)
        /\ ServerStep("wait_for timeout", srv.reqs[r].task,
              [srv EXCEPT !.tasks[srv.reqs[r].task].pc = "cancelled"], gm)

\* /api/game/stop
StopRequest ==
    \E r \in 1..MaxRequests :
        /\ Arrives(r)
        /\ ServerStep("/api/game/stop", r,
              [srv EXCEPT !.stop_event = TRUE,
                          !.reqs[r] = [kind |-> "stop", pc |-> "done", task |-> None]],
              gm)

\* /api/game/restart up to `await asyncio.sleep(0.5)`
RestartRequest ==
    \E r \in 1..MaxRequests :
        /\ Arrives(r)
        /\ ServerStep("/api/game/restart", r,
              [srv EXCEPT !.stop_event = TRUE,
                          !.reqs[r] = [kind |-> "restart", pc |-> "sleeping",
                                       task |-> None]],
              gm)

\* /api/game/restart after the sleep: game_manager.reset_game()
RestartResume ==
    \E r \in 1..MaxRequests :
        /\ srv.reqs[r].kind = "restart"
        /\ srv.reqs[r].pc = "sleeping"
        /\ ServerStep("/api/game/restart", r,
              [srv EXCEPT !.resets = @ + 1,
                          !.last_frame = 0,
                          !.reqs[r] = [kind |-> "restart", pc |-> "done",
                                       task |-> None]],
              reset_game(gm))

\* real_time_detection_task from its start to the broadcast of detection_start
TaskStart ==
    \E t \in 1..MaxTasks :
        /\ srv.tasks[t].pc = "created"
        /\ ServerStep("detection_start", t, [srv EXCEPT !.tasks[t].pc = "head"], gm)

\* collision_event.get("valid", True): only the event of a first hit holds
\* the key "valid"
CollisionValid(collision_event) ==
    collision_event.event = "first_hit" => collision_event.valid

\* the frame loop from update_ball_tracking to the sleep that ends the
\* iteration; an exception of check_movement_timeout ends the task
FrameTail(t, task, g) ==
    LET tracked == update_ball_tracking(g, task.frame_idx, Balls, TRUE).g
        timeout == check_movement_timeout(tracked)
    IN  ServerStep("frame", t,
            [srv EXCEPT !.tasks[t] =
                [task EXCEPT !.pc = IF timeout.ret = Raised THEN "stopping" ELSE "head",
                             !.invalid_hit = FALSE],
                        !.last_frame = task.frame_idx],
            timeout.g)

\* one iteration of the frame loop from the test of the while condition to
\* its first await: the broadcast of a collision event if the frame has a
\* collision, the sleep at the end otherwise
TaskFrame ==
    \E t \in 1..MaxTasks :
        LET task == srv.tasks[t]
        IN  /\ task.pc = "head"
            /\ IF gm.state # "playing" \/ srv.stop_event
               THEN ServerStep("loop exit", t,
                                [srv EXCEPT !.tasks[t].pc = "stopping"], gm)
               ELSE \/ ServerStep("video ended", t,
                                  [srv EXCEPT !.tasks[t].pc = "stopping"], gm)
                    \/ /\ task.frame_idx < MaxTaskFrames
                       /\ \E is_moving \in BOOLEAN, collided \in BOOLEAN :
                            LET read == [task EXCEPT !.frame_idx = @ + 1]
                                moved == IF read.frame_idx >= 2
                                         THEN update_movement(Begin(gm), is_moving)
                                         ELSE Begin(gm)
                                hit == process_collision(moved, BallName(SetMin(Balls)))
                            IN  IF read.frame_idx >= 2 /\ collided
                                THEN IF hit.ret = Raised
                                     THEN FrameTail(t, read, hit.g)
                                     ELSE ServerStep("frame", t,
                                            [srv EXCEPT !.tasks[t] =
                                                [read EXCEPT !.pc = "collided",
                                                             !.invalid_hit = ~CollisionValid(hit.ret)],
                                                        !.last_frame = read.frame_idx],
                                            hit.g)
                                ELSE FrameTail(t, read, moved)

\* the iteration resumed after the broadcast of the collision event
TaskAfterCollision ==
    \E t \in 1..MaxTasks :
        LET task == srv.tasks[t]
        IN  /\ task.pc = "collided"
            /\ FrameTail(t, task,
                         IF task.invalid_hit THEN process_foul(Begin(gm)).g ELSE Begin(gm))

\* real_time_detection_task, `for coll in collisions` over the new
\* collisions of a frame: process_collision, and process_foul if the hit is
\* not valid; an exception ends the loop
RECURSIVE HandleCollisions(_, _)
HandleCollisions(g, names) ==
    IF names = <<>>
    THEN g
    ELSE LET hit == process_collision(g, Head(names))
             foul == process_foul(hit.g)
         IN  IF hit.ret = Raised
             THEN hit.g
             ELSE IF CollisionValid(hit.ret)
             THEN HandleCollisions(hit.g, Tail(names))
             ELSE IF foul.ret = Raised
             THEN foul.g
             ELSE HandleCollisions(foul.g, Tail(names))

\* one iteration of the frame loop from the second frame on, without the
\* broadcasts: update_movement, the new collisions, update_ball_tracking and
\* check_movement_timeout.  g.events collects the events of the iteration
ProcessFrame(g, is_moving, names, frame_idx, detected_balls, cueball_detected) ==
    LET moved == update_movement(g, is_moving)
        collided == HandleCollisions(moved, names)
        tracked == update_ball_tracking(collided, frame_idx, detected_balls,
                                        cueball_detected)
    IN  check_movement_timeout(tracked.g)

\* the new collisions one frame may bring: none, one, or two at once
FrameCollisions ==
    {<<>>} \cup {<<BallName(b)>> : b \in 1..2} \cup {<<BallName(2), BallName(3)>>}

ProcessFrameCall ==
    /\ TurnBound(gm)
    /\ \E is_moving \in BOOLEAN, names \in FrameCollisions, frame_idx \in FrameIdxs,
          cueball_detected \in BOOLEAN :
        /\ ~cueball_detected => gm.cueball_missing_frames < MaxCueMissing
        /\ Returned("frame_iteration", names,
                    ProcessFrame(Begin(gm), is_moving, names, frame_idx, Balls,
                                 cueball_detected))

\* after the loop: cap.release() and the broadcast of detection_stop
TaskStop ==
    \E t \in 1..MaxTasks :
        /\ srv.tasks[t].pc = "stopping"
        /\ ServerStep("detection_stop", t, [srv EXCEPT !.tasks[t].pc = "done"], gm)

(***************************************************************************)
(* Spec: one game as the frame loop drives it.  Pots and reappearances     *)
(* come from the ball tracker; collisions, fouls and turn ends are called  *)
(* while the game is played.                                               *)
(***************************************************************************)
Next ==
    \/ gm.state = "idle" /\ StartGameCall
    \/ Playing /\ ProcessCollisionCall(HitNames)
    \/ Playing /\ ProcessFoulCall
    \/ Playing /\ FinalizeTurnCall
    \/ Playing /\ UpdateBallTrackingCall(DetectedLow)

Spec == Init /\ [][Next]_vars

(***************************************************************************)
(* SpecApi: the public methods called directly, game after game, with no   *)
(* frame fed to the tracker.                                               *)
(***************************************************************************)
NextApi ==
    \/ gm.state = "idle" /\ StartGameCall
    \/ ResetGameCall
    \/ Playing /\ ProcessCollisionCall(HitNames)
    \/ Playing /\ ProcessPottedBallCall(PotNames)
    \/ Playing /\ ProcessFoulCall
    \/ Playing /\ FinalizeTurnCall
    \/ Playing /\ UpdateMovementCall

SpecApi == Init /\ [][NextApi]_vars

(***************************************************************************)
(* SpecLowest: the tracker fed with frames during one game, and            *)
(* _update_lowest_ball applied to what it holds.                           *)
(***************************************************************************)
NextLowest ==
    \/ gm.state = "idle" /\ StartGameCall
    \/ Playing /\ UpdateBallTrackingCall(DetectedAny)
    \/ Playing /\ UpdateLowestBallCall

SpecLowest == Init /\ [][NextLowest]_vars

(***************************************************************************)
(* SpecMatch: whole matches, one after the other on the same GameManager:  *)
(* frames in which every ball or no ball is detected, first contacts with  *)
(* ball 1 and turn ends.  A match is won when the tracker confirms all     *)
(* nine balls potted after a contact with ball 1.                          *)
(***************************************************************************)
NextMatch ==
    \/ gm.state \in {"idle", "ended"} /\ StartGameCall
    \/ Playing /\ ProcessCollisionCall({BallName(1)})
    \/ Playing /\ FinalizeTurnCall
    \/ Playing /\ UpdateBallTrackingCall(DetectedAllOrNone)

SpecMatch == Init /\ [][NextMatch]_vars

(***************************************************************************)
(* SpecScratch: one game in which the cue ball is looked for call after    *)
(* call, between first contacts with ball 1 and turn ends.                 *)
(***************************************************************************)
NextScratch ==
    \/ gm.state = "idle" /\ StartGameCall
    \/ Playing /\ CheckCueballScratchCall
    \/ Playing /\ ProcessCollisionCall({BallName(1)})
    \/ Playing /\ FinalizeTurnCall

SpecScratch == Init /\ [][NextScratch]_vars

(***************************************************************************)
(* SpecTimeout: matches one after the other on the same GameManager while  *)
(* the clock runs: movement reports, the movement timeout, first contacts  *)
(* with ball 1 and frames in which every ball or no ball is detected.      *)
(***************************************************************************)
NextTimeout ==
    \/ gm.state \in {"idle", "ended"} /\ StartGameCall
    \/ Playing /\ ProcessCollisionCall({BallName(1)})
    \/ Playing /\ UpdateMovementCall
    \/ Playing /\ UpdateBallTrackingCall(DetectedAllOrNone)
    \/ Playing /\ CheckMovementTimeoutCall
    \/ Tick

SpecTimeout == Init /\ [][NextTimeout]_vars

(***************************************************************************)
(* SpecTurns: one game of contacts, pots and fouls in which the turn is    *)
(* handed over by _switch_turn.                                            *)
(***************************************************************************)
NextTurns ==
    \/ gm.state = "idle" /\ StartGameCall
    \/ Playing /\ ProcessCollisionCall(HitNames)
    \/ Playing /\ ProcessPottedBallCall(PotNames)
    \/ Playing /\ ProcessFoulCall
    \/ Playing /\ SwitchTurnCall

SpecTurns == Init /\ [][NextTurns]_vars

(***************************************************************************)
(* SpecSnapshots: one game of any number of turns, so that the snapshot    *)
(* list fills up: first contacts with ball 1, pots of ball 1, turn ends.   *)
(***************************************************************************)
NextSnapshots ==
    \/ gm.state = "idle" /\ StartGameCall
    \/ Playing /\ ProcessCollisionCall({BallName(1)})
    \/ Playing /\ ProcessPottedBallCall({BallName(1)})
    \/ Playing /\ FinalizeTurnAnyCall

SpecSnapshots == Init /\ [][NextSnapshots]_vars

(***************************************************************************)
(* SpecNames: one game in which process_collision and process_potted_ball  *)
(* are called with names of balls and with identifiers that name no ball.  *)
(***************************************************************************)
NextNames ==
    \/ gm.state = "idle" /\ StartGameCall
    \/ Playing /\ ProcessCollisionCall(HitNames \cup MalformedNames)
    \/ Playing /\ ProcessPottedBallCall(PotNames \cup MalformedNames)
    \/ Playing /\ FinalizeTurnCall

SpecNames == Init /\ [][NextNames]_vars

\* self.players[self.current_player_idx] does not exist: no game has been
\* started, or start_game was given a starting player that does not exist
NoActivePlayer == ~PyIndexOk(gm.players, gm.current_player_idx)

(***************************************************************************)
(* SpecTotal: the public operations called while there is no active        *)
(* player, before any game and after a start_game that raised.             *)
(***************************************************************************)
NextTotal ==
    \/ gm.state = "idle" /\ StartGameAnyCall
    \/ NoActivePlayer /\ ProcessCollisionCall({BallName(1)})
    \/ NoActivePlayer /\ ProcessPottedBallCall({BallName(1)})
    \/ NoActivePlayer /\ ProcessFoulCall
    \/ NoActivePlayer /\ CheckCueballScratchCall
    \/ NoActivePlayer /\ UpdateBallTrackingCall(DetectedLow)
    \/ NoActivePlayer /\ UpdateMovementCall
    \/ NoActivePlayer /\ CheckMovementTimeoutCall
    \/ NoActivePlayer /\ FinalizeTurnCall

SpecTotal == Init /\ [][NextTotal]_vars

\* the match is over
Ended == gm.state = "ended"

(***************************************************************************)
(* SpecEnded: balls 1..8 leave the table in ascending order, the shot      *)
(* that follows pockets ball 9, and then the operations are called on the  *)
(* ended match.                                                            *)
(***************************************************************************)
NextEnded ==
    \/ gm.state = "idle" /\ StartGameCall
    \/ Playing /\ PotLowestCall
    \/ Playing /\ gm.balls_on_table = {NINE} /\ ProcessCollisionCall({BallName(1)})
    \/ Ended /\ ProcessCollisionCall({BallName(1)})
    \/ Ended /\ ProcessPottedBallCall({BallName(1)})
    \/ Ended /\ ProcessFoulCall
    \/ Ended /\ UpdateBallTrackingCall(DetectedLow)
    \/ Ended /\ CheckMovementTimeoutCall
    \/ Ended /\ FinalizeTurnCall

SpecEnded == Init /\ [][NextEnded]_vars

(***************************************************************************)
(* SpecTracker: the BallTracker fed with frames, and reset, by its caller. *)
(***************************************************************************)
NextTracker ==
    \/ BallTrackerUpdateCall
    \/ BallTrackerResetCall

SpecTracker == Init /\ [][NextTracker]_vars

(***************************************************************************)
(* SpecBlink: one game fed to two managers, frame by frame; the only       *)
(* difference between them is that one loses sight of the blinker for      *)
(* short stretches.                                                        *)
(***************************************************************************)
NextBlink ==
    \/ gm.state = "idle" /\ BlinkStartCall
    \/ Playing /\ BlinkCollisionCall({BallName(Blinker + 1)})
    \/ Playing /\ BlinkTrackingCall

SpecBlink == Init /\ [][NextBlink]_vars

(***************************************************************************)
(* SpecMerge: merge_sequential_collisions applied to lists of collisions.  *)
(***************************************************************************)
NextMerge == MergeCall

SpecMerge == Init /\ [][NextMerge]_vars

(***************************************************************************)
(* SpecDetect: detect_collision applied to clips with the cue ball and one *)
(* object ball.                                                            *)
(***************************************************************************)
NextDetect == DetectCollisionCall(OneBall, Detections)

SpecDetect == Init /\ [][NextDetect]_vars

(***************************************************************************)
(* SpecDetectTwo: detect_collision applied to clips with the cue ball and  *)
(* two object balls close to it.                                           *)
(***************************************************************************)
NextDetectTwo == DetectCollisionCall(TwoBalls, NearDetections)

SpecDetectTwo == Init /\ [][NextDetectTwo]_vars

(***************************************************************************)
(* SpecRealTime: the collision handling of the real-time loop applied to   *)
(* videos with the cue ball and one object ball.                           *)
(***************************************************************************)
NextRealTime == RealTimeCollisionsCall(OneBall, Detections)

SpecRealTime == Init /\ [][NextRealTime]_vars

(***************************************************************************)
(* SpecMotion: detect_motion called frame after frame.                     *)
(***************************************************************************)
NextMotion == DetectMotionCall

SpecMotion == Init /\ [][NextMotion]_vars

(***************************************************************************)
(* SpecPipeline: the three threads of zzmain.py under fair scheduling:     *)
(* a thread that can take a step eventually takes one.                     *)
(***************************************************************************)
NextPipeline ==
    \/ CaptureStep
    \/ DetectGet
    \/ DetectTimeout
    \/ DetectRelPut
    \/ DetectPut
    \/ DetectEnd
    \/ PostStep

SpecPipeline ==
    /\ Init
    /\ [][NextPipeline]_vars
    /\ WF_vars(CaptureStep)
    /\ WF_vars(DetectGet \/ DetectTimeout \/ DetectRelPut \/ DetectPut \/ DetectEnd)
    /\ WF_vars(PostStep)

(***************************************************************************)
(* SpecPlaces: one game in which pots and reappearances are reported by    *)
(* direct calls, between contacts with ball 1 and turn ends.               *)
(***************************************************************************)
NextPlaces ==
    \/ gm.state = "idle" /\ StartGameCall
    \/ Playing /\ ProcessCollisionCall({BallName(SetMin(Balls))})
    \/ Playing /\ ProcessPottedBallCall(PotNames)
    \/ Playing /\ ProcessBallReappearanceCall(Absentable)
    \/ Playing /\ FinalizeTurnCall

SpecPlaces == Init /\ [][NextPlaces]_vars

(***************************************************************************)
(* SpecFrame: one game as the frame loop of real_time_detection_task       *)
(* drives it, one whole iteration at a time, while the clock runs.         *)
(***************************************************************************)
NextFrame ==
    \/ gm.state = "idle" /\ StartGameCall
    \/ Playing /\ ProcessFrameCall
    \/ Tick

SpecFrame == Init /\ [][NextFrame]_vars

(***************************************************************************)
(* SpecMoving: get_moving_balls applied at the frame after the one in      *)
(* which a ball was seen.                                                  *)
(***************************************************************************)
NextMoving == GetMovingBallsCall

SpecMoving == Init /\ [][NextMoving]_vars

(***************************************************************************)
(* SpecServer: requests to /api/game/start, /api/game/stop and             *)
(* /api/game/restart interleaved with the detection tasks they create.     *)
(***************************************************************************)
NextServer ==
    \/ StartRequest
    \/ StartResume
    \/ WaitForTimeout
    \/ StopRequest
    \/ RestartRequest
    \/ RestartResume
    \/ TaskStart
    \/ TaskFrame
    \/ TaskAfterCollision
    \/ TaskStop

SpecServer == Init /\ [][NextServer]_vars

(***************************************************************************)
(* SpecPots: one game in which every contact is with the lowest ball on    *)
(* the table, and the two lowest balls go out of sight one after the other *)
(* until the tracker confirms them potted.                                 *)
(***************************************************************************)
NextPots ==
    \/ gm.state = "idle" /\ StartGameCall
    \/ Playing /\ LowestContactCall
    \/ Playing /\ UpdateBallTrackingCall(DetectedRun)

SpecPots == Init /\ [][NextPots]_vars

(***************************************************************************)
(* What the claims speak of.                                               *)
(***************************************************************************)
\* the step is a call of `op` that returned (did not raise)
Called(op) == last_call'.op = op /\ last_call'.ret # Raised

\* the ball number a process_collision / process_potted_ball step was called with
CalledBall == ParseBall(last_call'.arg)

PottedBy(g, i) == g.players[i].potted_balls

FoulsOf(g, i) == g.players[i].foul_count

InAPottedList(g, b) == \E i \in 1..Len(g.players) : SeqContains(PottedBy(g, i), b)

\* the fields of the object other than the log of the call in progress
Fields(g) == [g EXCEPT !.events = <<>>]

\* the 1-based position of the player active in g, and of the other player
Active(g) == PyPos(g.players, g.current_player_idx)

Other(g) == 3 - Active(g)

\* what the tracker of g holds for ball b
Info(g, b) == g.ball_tracker.ball_states[b]

\* the step is a call BallTracker.update(frame_idx, detected_balls)
TrackerUpdated == last_call'.op = "BallTracker.update"

\* ball b is in, or is missing from, the detected_balls of that call
DetectedIn(b) == TrackerUpdated /\ b \in last_call'.arg.detected_balls

AbsentFrom(b) == TrackerUpdated /\ b \notin last_call'.arg.detected_balls

\* the number of times b is listed in a list the call returned
TimesListed(list, b) == Len(SelectSeq(list, LAMBDA x : x = b))

\* what scoring and fouling have decided in g
RuleState(g) ==
    [balls_on_table |-> g.balls_on_table,
     potted |-> [i \in 1..Len(g.players) |-> PottedBy(g, i)],
     fouls |-> [i \in 1..Len(g.players) |-> FoulsOf(g, i)],
     current_player_idx |-> g.current_player_idx]

\* the last call was merge_sequential_collisions
Merged == last_call.op = "merge_sequential_collisions"

\* the frames at which list has a collision with ball b
FramesOf(list, b) == {list[i].frame_idx : i \in {j \in 1..Len(list) : list[j].ball = b}}

\* the frames of F that a chain of gaps of at most max_gap links to frame f
RECURSIVE ChainOf(_, _)
ChainOf(F, C) ==
    LET more == {f \in F \ C : \E c \in C : f - c <= max_gap /\ c - f <= max_gap}
    IN  IF more = {} THEN C ELSE ChainOf(F, C \cup more)

\* the last call was detect_collision
Detected == last_call.op = "detect_collision"

\* the object balls the frames of a clip speak of
ObjectBalls(frames_data) == (DOMAIN frames_data[1].balls) \ {CUEBALL}

\* the collisions with ball b in a list
OfBall(list, b) == SelectSeq(list, LAMBDA c : c.ball = b)

\* the three gates of the pair (N-1, N), N = frames_data[i], for ball b
ProximityGate(frames_data, i, b) ==
    LET near_before == ~FartherThan(Find(FrameAt(frames_data, i - 1), CUEBALL),
                                    Find(FrameAt(frames_data, i - 1), b), PROXIMITY)
        near_now == ~FartherThan(Find(FrameAt(frames_data, i), CUEBALL),
                                 Find(FrameAt(frames_data, i), b), PROXIMITY)
    IN  IF Find(FrameAt(frames_data, i), b) # NoBall
        THEN near_before \/ near_now
        ELSE near_before

ContactGate(frames_data, i, b) ==
    LET cue_now == Find(FrameAt(frames_data, i), CUEBALL)
        ball_before == Find(FrameAt(frames_data, i - 1), b)
    IN  ~FartherThan(cue_now, ball_before,
                     cue_now.r + ball_before.r + DEFAULT_CONTACT_MARGIN)

\* the cue ball is detected in both frames of the pair, ball b in the first
PairComplete(frames_data, i, b) ==
    /\ Find(FrameAt(frames_data, i), CUEBALL) # NoBall
    /\ Find(FrameAt(frames_data, i - 1), CUEBALL) # NoBall
    /\ Find(FrameAt(frames_data, i - 1), b) # NoBall

GatesPass(frames_data, i, b) ==
    /\ PairComplete(frames_data, i, b)
    /\ ProximityGate(frames_data, i, b)
    /\ ContactGate(frames_data, i, b)
    /\ get_moving_balls(frames_data, i, b)

\* the offsets within the look-ahead window at which the clip has the ball
SeenAgainAt(frames_data, idx, ball_name) ==
    {k \in 1..LOOKAHEAD :
        /\ idx + k < Len(frames_data)
        /\ Find(FrameAt(frames_data, idx + k), ball_name) # NoBall}

\* task t is inside its frame loop, has applied updates to the manager and
\* will go on doing so
Writing(t) ==
    \/ srv.tasks[t].pc = "collided"
    \/ /\ srv.tasks[t].pc = "head"
       /\ srv.tasks[t].frame_idx >= 1
       /\ ~srv.stop_event
       /\ gm.state = "playing"

(***************************************************************************)
(* C1 - process_potted_ball: whenever ball 9 is potted while it is         *)
(* neither the last ball on the table nor the ball first contacted this    *)
(* turn, then after the call ball 9 is back in balls_on_table, it is in no *)
(* player's potted list and the match is still Playing; also when the      *)
(* first-contacted ball was not the lowest ball and when no contact has    *)
(* been made yet this turn.                                                *)
(***************************************************************************)
C1_EarlyNineReturnsToTable ==
    [][(/\ Called("process_potted_ball")
        /\ CalledBall = NINE
        /\ NINE \in gm.balls_on_table
        /\ gm.balls_on_table # {NINE}
        /\ gm.last_hit_ball # NINE)
       => (/\ NINE \in gm'.balls_on_table
           /\ ~InAPottedList(gm', NINE)
           /\ gm'.state = "playing")]_vars

(***************************************************************************)
(* C2 - process_potted_ball: whenever ball 9 is potted after a contact     *)
(* this turn and either it is the last ball on the table or it was the     *)
(* first ball contacted this turn, the match becomes Ended and the winner  *)
(* reported is the player who was active at the pot, whatever lowest_ball  *)
(* is.                                                                     *)
(***************************************************************************)
C2_NineWinsAsLastOrFirstHit ==
    [][(/\ Called("process_potted_ball")
        /\ CalledBall = NINE
        /\ NINE \in gm.balls_on_table
        /\ gm.first_contact
        /\ (gm.balls_on_table = {NINE} \/ gm.last_hit_ball = NINE))
       => (/\ gm'.state = "ended"
           /\ last_call'.ret.game_end
           /\ last_call'.ret.player = gm.current_player_idx)]_vars

C4_FoulChargedOnceAndTurnSwitches ==
    [][/\ (Called("process_foul") /\ gm.state = "playing")
            => (/\ FoulsOf(gm', Active(gm)) = FoulsOf(gm, Active(gm)) + 1
                /\ FoulsOf(gm', Other(gm)) = FoulsOf(gm, Other(gm))
                /\ gm'.current_player_idx = 1 - gm.current_player_idx
                /\ gm'.players[Other(gm)].is_current
                /\ ~gm'.players[Active(gm)].is_current
                /\ last_call'.ret.event = "foul"
                /\ last_call'.ret.player = gm.current_player_idx)
       /\ (/\ Called("process_collision")
           /\ last_call'.arg = BallName(5)
           /\ ~is_in_break_grace_period(gm)
           /\ gm.lowest_ball = 2
           /\ gm.last_hit_ball = None)
            => (/\ last_call'.ret.event = "first_hit"
                /\ ~last_call'.ret.valid
                /\ last_call'.ret.has_foul_reason)]_vars

\* process_foul has charged player 1, who was active after the break grace
\* with lowest ball 2, and player 2 is active
C4_Witness ==
    /\ last_call.op = "process_foul"
    /\ last_call.ret.event = "foul"
    /\ last_call.ret.player = 0
    /\ Len(gm.state_snapshots) >= 3
    /\ gm.lowest_ball = 2
    /\ FoulsOf(gm, 1) = 1
    /\ FoulsOf(gm, 2) = 0
    /\ gm.current_player_idx = 1

(***************************************************************************)
(* C5 - the first process_collision of a turn that happens while the game  *)
(* is in break grace returns valid = true for every struck ball, whatever  *)
(* the lowest ball is; and break grace is in force for the first shot      *)
(* after every start_game, including a start_game issued after a previous  *)
(* game in the same GameManager has run several turns.                     *)
(***************************************************************************)
C5_BreakGraceAfterEveryStart ==
    [][/\ (/\ Called("process_collision")
           /\ gm.last_hit_ball = None
           /\ is_in_break_grace_period(gm))
            => (last_call'.ret.valid /\ ~last_call'.ret.has_foul_reason)
       /\ Called("start_game") => is_in_break_grace_period(gm')
       /\ (/\ Called("process_collision")
           /\ last_call.op = "start_game"
           /\ last_call.ret # Raised)
            => (/\ last_call'.ret.event = "first_hit"
                /\ last_call'.ret.in_grace_period
                /\ last_call'.ret.valid)]_vars

(***************************************************************************)
(* C6 - start_game called in state Idle or Ended moves the match to        *)
(* Playing and resets all rule state: balls_on_table = 1..9, lowest_ball   *)
(* = 1, last_hit_ball empty, first_contact false, balls potted this turn   *)
(* empty, both players' potted lists empty and foul counts 0, tracker      *)
(* reset, cue-scratch counter reset, and no turn snapshot or movement      *)
(* timestamp of the previous game left over.                               *)
(***************************************************************************)
C6_StartGameResetsAllRuleState ==
    [][(Called("start_game") /\ gm.state \in {"idle", "ended"})
       => (/\ gm'.state = "playing"
           /\ gm'.balls_on_table = Balls
           /\ gm'.lowest_ball = 1
           /\ gm'.last_hit_ball = None
           /\ ~gm'.first_contact
           /\ gm'.last_potted_balls = <<>>
           /\ Len(gm'.players) = 2
           /\ \A i \in 1..2 : PottedBy(gm', i) = <<>> /\ FoulsOf(gm', i) = 0
           /\ gm'.ball_tracker.ball_states = BallTracker_init.ball_states
           /\ gm'.cueball_missing_frames = 0
           /\ ~gm'.cueball_scratched
           /\ gm'.state_snapshots = <<>>
           /\ gm'.current_snapshot = <<>>
           /\ gm'.last_movement_time = None
           /\ ~gm'.balls_moving)]_vars

(***************************************************************************)
(* C7 - after start(p1, p2, 0), process_collision("bi1") during grace      *)
(* returns valid = true, and the following process_potted_ball("bi1")      *)
(* credits ball 1 to player 1 and leaves lowest_ball = 2.  More generally, *)
(* after a valid pot of the lowest ball, lowest_ball is the smallest ball  *)
(* still in balls_on_table.                                                *)
(***************************************************************************)
C7_LowestAdvancesAfterValidPot ==
    [][(/\ Called("process_potted_ball")
        /\ last_call'.ret.event = "potted"
        /\ last_call'.ret.valid
        /\ CalledBall = gm.lowest_ball
        /\ gm'.balls_on_table # {})
       => (/\ SeqContains(PottedBy(gm', Active(gm)), CalledBall)
           /\ gm'.lowest_ball = SetMin(gm'.balls_on_table))]_vars

(***************************************************************************)
(* C8 - process_collision changes state only as the first contact of a     *)
(* turn: when last_hit_ball is already set, the call changes no field and  *)
(* adds no event; when it is the first contact it sets last_hit_ball to    *)
(* the struck ball and first_contact to true, and reports valid = (struck  *)
(* ball = lowest_ball) or in break grace, with a foul reason exactly when   *)
(* valid is false, without changing foul counts or the active player.      *)
(***************************************************************************)
C8_CollisionOnlyFirstContact ==
    [][Called("process_collision")
       => IF gm.last_hit_ball # None
          THEN /\ Fields(gm') = Fields(gm)
               /\ gm'.events = <<>>
               /\ last_call'.ret.event = "subsequent_hit"
          ELSE /\ gm'.last_hit_ball = CalledBall
               /\ gm'.first_contact
               /\ last_call'.ret.event = "first_hit"
               /\ last_call'.ret.valid
                    <=> (CalledBall = gm.lowest_ball \/ Len(gm.state_snapshots) <= 1)
               /\ last_call'.ret.has_foul_reason <=> ~last_call'.ret.valid
               /\ gm'.players = gm.players
               /\ gm'.current_player_idx = gm.current_player_idx
               /\ gm'.state = gm.state]_vars

\* a second contact of the turn, with another ball than the first, has been
\* reported after the break grace
C8_Witness ==
    /\ last_call.op = "process_collision"
    /\ last_call.ret.event = "subsequent_hit"
    /\ gm.last_hit_ball # None
    /\ last_call.ret.ball # gm.last_hit_ball
    /\ gm.last_hit_ball # gm.lowest_ball
    /\ Len(gm.state_snapshots) >= 2

(***************************************************************************)
(* C9 - process_potted_ball for a ball that is on the table while no       *)
(* contact has been made this turn removes the ball from balls_on_table    *)
(* and records it in the balls potted this turn, and changes neither       *)
(* player's potted list nor either foul count nor the active player nor    *)
(* the match lifecycle state.                                              *)
(***************************************************************************)
C9_PreContactPotNotScored ==
    [][(/\ Called("process_potted_ball")
        /\ CalledBall \in gm.balls_on_table
        /\ ~gm.first_contact)
       => (/\ gm'.balls_on_table = gm.balls_on_table \ {CalledBall}
           /\ gm'.last_potted_balls = Append(gm.last_potted_balls, CalledBall)
           /\ gm'.players = gm.players
           /\ gm'.current_player_idx = gm.current_player_idx
           /\ gm'.state = gm.state)]_vars

\* a ball has left the table before any contact of the turn
C9_Witness ==
    /\ last_call.op = "process_potted_ball"
    /\ last_call.ret.event = "potted"
    /\ last_call.ret.pre_contact
    /\ ~gm.first_contact
    /\ last_call.ret.ball \notin gm.balls_on_table
    /\ SeqContains(gm.last_potted_balls, last_call.ret.ball)

(***************************************************************************)
(* C10 - _update_lowest_ball sets lowest_ball to the minimum ball number   *)
(* whose tracker state is exactly ON_TABLE (MISSING and POTTED balls are   *)
(* excluded), and when no ball is ON_TABLE it leaves lowest_ball unchanged *)
(* and raises no error.                                                    *)
(***************************************************************************)
C10_LowestIsMinOnTable ==
    [][last_call'.op = "_update_lowest_ball"
       => /\ last_call'.ret = RetNone
          /\ IF \E b \in Balls : gm.ball_tracker.ball_states[b].state = "on_table"
             THEN /\ gm.ball_tracker.ball_states[gm'.lowest_ball].state = "on_table"
                  /\ \A b \in Balls :
                        gm.ball_tracker.ball_states[b].state = "on_table"
                            => gm'.lowest_ball <= b
             ELSE gm'.lowest_ball = gm.lowest_ball]_vars

\* _update_lowest_ball has passed over a MISSING ball below the lowest one
C10_Witness ==
    /\ last_call.op = "_update_lowest_ball"
    /\ \E b \in Balls :
            /\ b < gm.lowest_ball
            /\ gm.ball_tracker.ball_states[b].state = "missing"

(***************************************************************************)
(* C11 - for every sequence of check_cueball_scratch calls: the missing    *)
(* counter counts the consecutive calls with the cue undetected (no other  *)
(* call of a game changes it); a scratch foul - one process_foul, one      *)
(* foul-count increment, one turn switch - is raised on the call at which  *)
(* the counter reaches 10 and on no other call of the same absence; a call *)
(* with the cue detected resets the counter and raises nothing.            *)
(***************************************************************************)
C11_ScratchIsOneShot ==
    [][/\ (last_call'.op = "check_cueball_scratch" /\ last_call'.arg = TRUE)
            => (/\ gm'.cueball_missing_frames = 0
                /\ ~gm'.cueball_scratched
                /\ last_call'.ret = RetNone
                /\ gm'.players = gm.players
                /\ gm'.current_player_idx = gm.current_player_idx
                /\ gm'.events = <<>>)
       /\ (last_call'.op = "check_cueball_scratch" /\ last_call'.arg = FALSE)
            => (/\ gm'.cueball_missing_frames = gm.cueball_missing_frames + 1
                /\ IF gm'.cueball_missing_frames = SCRATCH_THRESHOLD
                   THEN /\ last_call'.ret.event = "foul"
                        /\ last_call'.ret.has_foul_reason
                        /\ gm'.events = <<"foul", "turn_change">>
                        /\ FoulsOf(gm', Active(gm)) = FoulsOf(gm, Active(gm)) + 1
                        /\ FoulsOf(gm', Other(gm)) = FoulsOf(gm, Other(gm))
                        /\ gm'.current_player_idx = 1 - gm.current_player_idx
                        /\ gm'.cueball_scratched
                   ELSE /\ last_call'.ret = RetNone
                        /\ gm'.events = <<>>
                        /\ gm'.players = gm.players
                        /\ gm'.current_player_idx = gm.current_player_idx
                        /\ gm'.cueball_scratched = gm.cueball_scratched)
       /\ last_call'.op \notin {"check_cueball_scratch", "start_game"}
            => /\ gm'.cueball_missing_frames = gm.cueball_missing_frames
               /\ gm'.cueball_scratched = gm.cueball_scratched]_vars

\* the call after the one that raised the scratch has found the cue ball
\* still missing and raised nothing
C11_Witness ==
    /\ last_call.op = "check_cueball_scratch"
    /\ last_call.arg = FALSE
    /\ last_call.ret = RetNone
    /\ gm.cueball_missing_frames = SCRATCH_THRESHOLD + 1
    /\ gm.cueball_scratched
    /\ FoulsOf(gm, 1) + FoulsOf(gm, 2) = 1

\* no update_movement(True) has been received in the turn g is in: the turn
\* start cleared the timestamp, or the timestamp is older than the game, or
\* the game has just been started
NoMovementThisTurn(g) ==
    \/ g.last_movement_time = None
    \/ g.last_movement_time < g.game_start_timestamp
    \/ last_call.op = "start_game"

\* the turn-start values of the per-turn fields and one snapshot pushed
TurnOpened(g, h) ==
    /\ h.last_hit_ball = None
    /\ ~h.first_contact
    /\ h.last_potted_balls = <<>>
    /\ h.current_snapshot # <<>>
    /\ h.state_snapshots =
            IF Len(g.state_snapshots) < max_snapshots
            THEN Append(g.state_snapshots, h.current_snapshot[1])
            ELSE Append(Tail(g.state_snapshots), h.current_snapshot[1])

(***************************************************************************)
(* C12 - when check_movement_timeout finds the balls not moving and the    *)
(* last recorded movement older than movement_timeout: if no ball was      *)
(* potted this turn the active player toggles; if at least one ball was    *)
(* potted this turn the active player stays the same (turn_continue); in   *)
(* both cases last_hit_ball, first_contact and the potted-this-turn list   *)
(* are cleared and exactly one new turn snapshot is pushed.  When the      *)
(* timeout has not elapsed, or no movement was recorded this turn, the     *)
(* call changes nothing.                                                   *)
(***************************************************************************)
C12_TimeoutEndsTheTurn ==
    [][Called("check_movement_timeout")
       => IF /\ ~NoMovementThisTurn(gm)
             /\ ~gm.balls_moving
             /\ now - gm.last_movement_time > movement_timeout
          THEN /\ TurnOpened(gm, gm')
               /\ IF gm.last_potted_balls = <<>>
                  THEN /\ gm'.current_player_idx = 1 - gm.current_player_idx
                       /\ last_call'.ret.event = "turn_change"
                  ELSE /\ gm'.current_player_idx = gm.current_player_idx
                       /\ last_call'.ret.event = "turn_continue"
          ELSE /\ Fields(gm') = Fields(gm)
               /\ gm'.events = <<>>
               /\ last_call'.ret = RetNone]_vars

(***************************************************************************)
(* C13 - _switch_turn toggles current_player_idx between 0 and 1, moves    *)
(* the is_current flag so that exactly the new active player has it,       *)
(* clears last_hit_ball, first_contact and the potted-this-turn list,      *)
(* pushes one new turn snapshot, and changes neither balls_on_table,       *)
(* lowest_ball, the players' potted lists nor their foul counts.           *)
(***************************************************************************)
C13_SwitchTurnFrame ==
    [][Called("_switch_turn")
       => (/\ gm.current_player_idx \in {0, 1}
           /\ gm'.current_player_idx = 1 - gm.current_player_idx
           /\ \A i \in 1..2 : gm'.players[i].is_current <=> (i = Active(gm'))
           /\ TurnOpened(gm, gm')
           /\ gm'.current_snapshot[1].current_player_idx = gm'.current_player_idx
           /\ gm'.balls_on_table = gm.balls_on_table
           /\ gm'.lowest_ball = gm.lowest_ball
           /\ \A i \in 1..2 : /\ PottedBy(gm', i) = PottedBy(gm, i)
                              /\ FoulsOf(gm', i) = FoulsOf(gm, i)
           /\ gm'.state = gm.state
           /\ last_call'.ret.event = "turn_change"
           /\ last_call'.ret.player = gm'.current_player_idx)]_vars

\* _switch_turn has handed the turn back to player 1 in a game with a ball
\* credited and a foul charged
C13_Witness ==
    /\ last_call.op = "_switch_turn"
    /\ last_call.ret.event = "turn_change"
    /\ gm.current_player_idx = 0
    /\ Len(gm.state_snapshots) >= 2
    /\ gm.balls_on_table # Balls
    /\ \E i \in 1..2 : PottedBy(gm, i) # <<>>
    /\ \E i \in 1..2 : FoulsOf(gm, i) > 0

(***************************************************************************)
(* C14 - a turn snapshot is created at the start of every turn, including  *)
(* the first turn opened by start_game, so that during Playing the current *)
(* turn always has a snapshot of its starting state; the snapshot list     *)
(* never holds more than max_snapshots (5) entries, and when a sixth is    *)
(* pushed the oldest one is the one removed, the remaining ones keeping    *)
(* their order.                                                            *)
(***************************************************************************)
C14_SnapshotAtEveryTurnStart ==
    [][/\ gm'.state = "playing"
            => /\ gm'.current_snapshot # <<>>
               /\ gm'.state_snapshots # <<>>
               /\ gm'.current_snapshot[1] = gm'.state_snapshots[Len(gm'.state_snapshots)]
               /\ gm'.current_snapshot[1].current_player_idx = gm'.current_player_idx
       /\ Len(gm'.state_snapshots) <= max_snapshots
       /\ gm'.state_snapshots # gm.state_snapshots
            => \E snapshot \in {gm'.state_snapshots[Len(gm'.state_snapshots)]} :
                    gm'.state_snapshots =
                        IF Len(gm.state_snapshots) < max_snapshots
                        THEN Append(gm.state_snapshots, snapshot)
                        ELSE Append(Tail(gm.state_snapshots), snapshot)]_vars

(***************************************************************************)
(* C15 - process_collision and process_potted_ball called with an          *)
(* identifier that is not one of "bi1".."bi9" (for example "cueball",      *)
(* "bi", "bi0", "bi10", "12") return a distinct invalid event              *)
(* (invalid_collision / invalid_pot) and leave every GameManager field,    *)
(* including last_hit_ball, first_contact and the event log, unchanged.    *)
(***************************************************************************)
C15_MalformedNameIsRejected ==
    [][/\ (last_call'.op = "process_collision" /\ last_call'.arg \notin BallNames)
            => (/\ last_call'.ret.event = "invalid_collision"
                /\ Fields(gm') = Fields(gm)
                /\ gm'.events = <<>>)
       /\ (last_call'.op = "process_potted_ball" /\ last_call'.arg \notin BallNames)
            => (/\ last_call'.ret.event = "invalid_pot"
                /\ Fields(gm') = Fields(gm)
                /\ gm'.events = <<>>)]_vars

(***************************************************************************)
(* C16 - every public GameManager operation (start_game,                   *)
(* process_collision, process_potted_ball, process_foul,                   *)
(* check_cueball_scratch, update_ball_tracking, check_movement_timeout,    *)
(* finalize_turn) is all-or-nothing: in every state, including Idle with   *)
(* no players and start_game with starting_player outside {0,1}, a call    *)
(* that raises leaves every field exactly as it was before the call.       *)
(***************************************************************************)
C16_RaisingCallChangesNothing ==
    [][(/\ last_call'.op \in {"start_game", "process_collision", "process_potted_ball",
                              "process_foul", "check_cueball_scratch",
                              "update_ball_tracking", "check_movement_timeout",
                              "finalize_turn"}
        /\ last_call'.ret = Raised)
       => (Fields(gm') = Fields(gm) /\ gm'.events = <<>>)]_vars

(***************************************************************************)
(* C17 - Ended is terminal: once the match state is Ended,                 *)
(* process_collision, process_potted_ball, process_foul,                   *)
(* update_ball_tracking (ball reappearance and cue scratch included),      *)
(* check_movement_timeout and finalize_turn change neither the lifecycle   *)
(* state, the active player, balls_on_table, the players' potted lists nor *)
(* their foul counts.                                                      *)
(***************************************************************************)
C17_EndedIsTerminal ==
    [][(/\ gm.state = "ended"
        /\ last_call'.op \in {"process_collision", "process_potted_ball", "process_foul",
                              "update_ball_tracking", "check_cueball_scratch",
                              "check_movement_timeout", "finalize_turn"})
       => /\ gm'.state = "ended"
          /\ gm'.current_player_idx = gm.current_player_idx
          /\ gm'.balls_on_table = gm.balls_on_table
          /\ \A i \in 1..Len(gm.players) :
                /\ PottedBy(gm', i) = PottedBy(gm, i)
                /\ FoulsOf(gm', i) = FoulsOf(gm, i)]_vars

(***************************************************************************)
(* C18 - BallTracker.update, for every ball 1..9 and any frame index, 0    *)
(* included: a ball is MISSING or POTTED, or listed in newly_missing or    *)
(* newly_potted, only if an earlier update since the last reset had it in  *)
(* its detected set.  A sighting is recorded (last_seen_frame changes)     *)
(* only by an update that detects the ball; a ball with no sighting        *)
(* recorded is ON_TABLE with missing_frames 0, and an update that omits it *)
(* leaves it exactly so and lists it nowhere.                              *)
(***************************************************************************)
C18_NeverSeenNeverMissing ==
    [][\A b \in Balls :
          /\ Info(gm', b).last_seen_frame # Info(gm, b).last_seen_frame
                => \/ last_call'.op = "BallTracker.reset"
                   \/ DetectedIn(b)
          /\ Info(gm', b).state # "on_table" => Info(gm', b).last_seen_frame > 0
          /\ Info(gm', b).last_seen_frame = 0
                => Info(gm', b).state = "on_table" /\ Info(gm', b).missing_frames = 0
          /\ (AbsentFrom(b) /\ Info(gm, b).last_seen_frame = 0)
                => /\ Info(gm', b) = Info(gm, b)
                   /\ TimesListed(last_call'.ret.newly_missing, b) = 0
                   /\ TimesListed(last_call'.ret.newly_potted, b) = 0]_vars

\* ball 9 was seen and has been confirmed potted, while ball 1, omitted by
\* the update at frame 0 that was just made, has no sighting recorded
C18_Witness ==
    /\ last_call.op = "BallTracker.update"
    /\ last_call.arg.frame_idx = 0
    /\ 1 \notin last_call.arg.detected_balls
    /\ Info(gm, 1) = [state |-> "on_table", missing_frames |-> 0, last_seen_frame |-> 0]
    /\ Info(gm, NINE).state = "potted"

(***************************************************************************)
(* C19 - pot confirmation in BallTracker.update is threshold-exact: the    *)
(* first update that omits a seen ball makes it MISSING with count 1, each *)
(* further omission adds 1, the ball is MISSING while the count is         *)
(* 1..MISSING_THRESHOLD-1 and becomes POTTED, listed once in newly_potted, *)
(* at exactly the update where the count reaches MISSING_THRESHOLD, and in *)
(* no other update.  A ball absent for 9 updates and then detected is not  *)
(* listed in newly_potted, is listed once in reappeared and is ON_TABLE.   *)
(***************************************************************************)
C19_ConfirmationIsThresholdExact ==
    [][\A b \in Balls :
          /\ Info(gm', b).state = "missing"
                => Info(gm', b).missing_frames \in 1..(MISSING_THRESHOLD - 1)
          /\ Info(gm', b).state = "potted"
                => Info(gm', b).missing_frames = MISSING_THRESHOLD
          /\ (AbsentFrom(b) /\ Info(gm, b).state = "on_table"
                            /\ Info(gm, b).last_seen_frame > 0)
                => /\ Info(gm', b).state = "missing"
                   /\ Info(gm', b).missing_frames = 1
          /\ (AbsentFrom(b) /\ Info(gm, b).state = "missing")
                => /\ Info(gm', b).missing_frames = Info(gm, b).missing_frames + 1
                   /\ Info(gm', b).state =
                         IF Info(gm, b).missing_frames + 1 = MISSING_THRESHOLD
                         THEN "potted" ELSE "missing"
          /\ TrackerUpdated
                => TimesListed(last_call'.ret.newly_potted, b) =
                      IF /\ AbsentFrom(b)
                         /\ Info(gm, b).state = "missing"
                         /\ Info(gm, b).missing_frames = MISSING_THRESHOLD - 1
                      THEN 1 ELSE 0
          /\ (DetectedIn(b) /\ Info(gm, b).state = "missing"
                            /\ Info(gm, b).missing_frames = MISSING_THRESHOLD - 1)
                => /\ TimesListed(last_call'.ret.reappeared, b) = 1
                   /\ Info(gm', b).state = "on_table"]_vars

\* the update just made confirmed the pot of ball 1 at its tenth absence
C19_Witness ==
    /\ last_call.op = "BallTracker.update"
    /\ TimesListed(last_call.ret.newly_potted, 1) = 1
    /\ Info(gm, 1).state = "potted"
    /\ Info(gm, 1).missing_frames = MISSING_THRESHOLD

(***************************************************************************)
(* C20 - whenever a ball is in the detected set of a BallTracker.update    *)
(* call, after the call its state is ON_TABLE and its missing_frames is 0, *)
(* whatever its state before; it is listed in reappeared (once) exactly    *)
(* when its state before the call was MISSING or POTTED.                   *)
(***************************************************************************)
C20_DetectedBallIsOnTable ==
    [][\A b \in Balls :
          DetectedIn(b)
            => /\ Info(gm', b).state = "on_table"
               /\ Info(gm', b).missing_frames = 0
               /\ TimesListed(last_call'.ret.reappeared, b) =
                     IF Info(gm, b).state \in {"missing", "potted"} THEN 1 ELSE 0]_vars

\* the update just made detected ball 9 again after it had gone out of
\* sight, while ball 1 stays confirmed potted
C20_Witness ==
    /\ last_call.op = "BallTracker.update"
    /\ NINE \in last_call.arg.detected_balls
    /\ TimesListed(last_call.ret.reappeared, NINE) = 1
    /\ Info(gm, NINE) = [state |-> "on_table", missing_frames |-> 0,
                         last_seen_frame |-> last_call.arg.frame_idx]
    /\ Info(gm, 1).state = "potted"

(***************************************************************************)
(* C21 - through update_ball_tracking, scoring and fouling never react to  *)
(* a short absence: when a numbered ball that was out of sight for fewer   *)
(* than MISSING_THRESHOLD consecutive frames is detected again,            *)
(* balls_on_table, both players' potted lists, both foul counts and the    *)
(* active player are the same as in the manager that was given the same    *)
(* calls with the ball detected in every frame.                            *)
(***************************************************************************)
C21_ShortAbsenceLeavesNoTrace ==
    [][(/\ last_call'.op = "update_ball_tracking"
        /\ Info(gm, Blinker).state = "missing"
        /\ Info(gm', Blinker).state = "on_table")
       => RuleState(gm') = RuleState(twin')]_vars

(***************************************************************************)
(* C22 - in the list returned by detect_collision (after                   *)
(* merge_sequential_collisions with max_gap 2), no two events reference    *)
(* the same ball with frame indices differing by 2 or less, whatever the   *)
(* input, also when collisions with other balls fall on the same or on     *)
(* intermediate frames.                                                    *)
(***************************************************************************)
C22_NoTwoEventsWithinGap ==
    Detected =>
        LET returned == last_call.ret.returned
        IN  \A i, j \in 1..Len(returned) :
                (i # j /\ returned[i].ball = returned[j].ball)
                    => \/ returned[i].frame_idx - returned[j].frame_idx > max_gap
                       \/ returned[j].frame_idx - returned[i].frame_idx > max_gap

(***************************************************************************)
(* C23 - merge_sequential_collisions returns a sub-list of its input in    *)
(* which each (frame, ball) pair occurs at most once; for every group of   *)
(* same-ball collisions chained by gaps of at most max_gap the single      *)
(* event kept is the one with the smallest frame index of the group; no    *)
(* collision of a ball is dropped unless an event for the same ball at an  *)
(* earlier or equal frame within the chain is kept.                        *)
(***************************************************************************)
C23_MergeKeepsEarliestOfChain ==
    Merged =>
        LET input == last_call.arg
            output == last_call.ret
        IN  /\ \A i \in 1..Len(output) : \E j \in 1..Len(input) : output[i] = input[j]
            /\ \A i, j \in 1..Len(output) : output[i] = output[j] => i = j
            /\ \A j \in 1..Len(input) :
                  LET chain == ChainOf(FramesOf(input, input[j].ball),
                                       {input[j].frame_idx})
                  IN  FramesOf(output, input[j].ball) \cap chain = {SetMin(chain)}

(***************************************************************************)
(* C24 - before merging, detect_collision records a collision for object   *)
(* ball b on the consecutive frame pair (N-1, N) exactly when b is present *)
(* at N-1 (and the cue ball in both frames) and all three gates pass:      *)
(* proximity (the smaller of the cue-to-b distances at N-1 and at N, or    *)
(* the one at N-1 if b is absent at N, is at most 100), contact (distance  *)
(* from the cue at N to b at N-1 at most r(cue at N) + r(b at N-1) +       *)
(* contact_margin) and movement; otherwise nothing is recorded for that    *)
(* pair and ball.                                                          *)
(***************************************************************************)
C24_RecordedIffGatesPass ==
    Detected =>
        LET frames_data == last_call.arg
        IN  \A i \in 1..(Len(frames_data) - 1) : \A b \in ObjectBalls(frames_data) :
                Len(OfBall(last_call.ret.by_pair[i], b)) =
                    IF GatesPass(frames_data, i, b) THEN 1 ELSE 0

\* a clip of three frames: the first pair passes the proximity gate and the
\* movement gate but fails the contact gate, the second pair records a
\* collision
C24_Witness ==
    /\ Detected
    /\ Len(last_call.arg) = 3
    /\ LET frames_data == last_call.arg
           b == SetMin(Balls)
       IN  /\ PairComplete(frames_data, 1, b)
           /\ ProximityGate(frames_data, 1, b)
           /\ get_moving_balls(frames_data, 1, b)
           /\ ~ContactGate(frames_data, 1, b)
           /\ last_call.ret.by_pair[1] = <<>>
           /\ Len(last_call.ret.by_pair[2]) = 1

(***************************************************************************)
(* C25 - a collision that passes the gates on pair (N-1, N) is recorded    *)
(* with the frame index of N, the cue at N and the ball at N when the ball *)
(* is detected at N, and with the frame index of N-1, the cue at N-1 and   *)
(* the ball at N-1 when the ball is not detected at N.                     *)
(***************************************************************************)
C25_RecordedAtLastVisibleFrame ==
    Detected =>
        LET frames_data == last_call.arg
        IN  \A i \in 1..(Len(frames_data) - 1) :
              \A k \in 1..Len(last_call.ret.by_pair[i]) :
                LET c == last_call.ret.by_pair[i][k]
                    at == IF Find(FrameAt(frames_data, i), c.ball) # NoBall
                          THEN FrameAt(frames_data, i)
                          ELSE FrameAt(frames_data, i - 1)
                IN  /\ c.frame_idx = at.frame_idx
                    /\ c.cueball = Find(at, CUEBALL)
                    /\ c.ball_at = Find(at, c.ball)

\* a collision recorded for the last pair of a clip of three frames, for a
\* ball that is not detected in the last frame
C25_Witness ==
    /\ Detected
    /\ Len(last_call.arg) = 3
    /\ Find(FrameAt(last_call.arg, 2), SetMin(Balls)) = NoBall
    /\ Len(last_call.ret.by_pair[2]) = 1
    /\ last_call.ret.by_pair[2][1].frame_idx = 1

(***************************************************************************)
(* C26 - movement gate for a ball that vanishes at frame N                 *)
(* (get_moving_balls): the frames N+1..N+9 are searched in order for the   *)
(* first one containing the ball; if one is found the result is true       *)
(* exactly when the distance between that position and the position at N-1 *)
(* exceeds move_thresh times the ball's radius at N-1; if none of the nine *)
(* frames contains the ball, or the frame list ends before the ball        *)
(* reappears, the result is true.                                          *)
(***************************************************************************)
C26_VanishedBallLookAhead ==
    (/\ last_call.op = "get_moving_balls"
     /\ Find(FrameAt(last_call.arg.frames_data, last_call.arg.idx),
             last_call.arg.ball_name) = NoBall)
    => LET frames_data == last_call.arg.frames_data
           idx == last_call.arg.idx
           ball_name == last_call.arg.ball_name
           b_prev == Find(FrameAt(frames_data, idx - 1), ball_name)
           seen == SeenAgainAt(frames_data, idx, ball_name)
       IN  last_call.ret =
              IF seen = {}
              THEN TRUE
              ELSE MovedMoreThan(
                      Find(FrameAt(frames_data, idx + SetMin(seen)), ball_name),
                      b_prev, b_prev.r)

\* the ball is out of sight in frames N..N+9 and back where it was in frame
\* N+10, outside the window: the result is true
C26_Witness ==
    /\ last_call.op = "get_moving_balls"
    /\ last_call.ret = TRUE
    /\ LET frames_data == last_call.arg.frames_data
           idx == last_call.arg.idx
           ball_name == last_call.arg.ball_name
       IN  /\ Len(frames_data) > idx + LOOKAHEAD + 1
           /\ SeenAgainAt(frames_data, idx, ball_name) = {}
           /\ Find(FrameAt(frames_data, idx + LOOKAHEAD + 1), ball_name)
                 = Find(FrameAt(frames_data, idx - 1), ball_name)

(***************************************************************************)
(* C27 - single writer: at any time at most one real-time detection task   *)
(* is running and mutating the shared GameManager, for every interleaving  *)
(* of /api/game/start, /api/game/stop and /api/game/restart requests,      *)
(* including two start requests that overlap while a previous task is      *)
(* being stopped.                                                          *)
(***************************************************************************)
C27_SingleWriter == Cardinality({t \in 1..MaxTasks : Writing(t)}) <= 1

(***************************************************************************)
(* C28 - an external stop halts the detection loop only at a frame         *)
(* boundary: no reset_game or start_game and no task cancellation takes    *)
(* effect between the GameManager updates of a frame whose processing has  *)
(* begun, and a loop makes no GameManager update after a reset_game that   *)
(* came after its creation.                                                *)
(***************************************************************************)
C28_StopOnlyAtFrameBoundary ==
    [][/\ srv'.resets # srv.resets
            => \A t \in 1..MaxTasks : srv.tasks[t].pc # "collided"
       /\ \A t \in 1..MaxTasks :
            (srv'.tasks[t].pc = "cancelled" /\ srv.tasks[t].pc # "cancelled")
                => srv.tasks[t].pc # "collided"
       /\ \A t \in 1..MaxTasks :
            (last_call'.op = "frame" /\ last_call'.arg = t)
                => srv.tasks[t].game = srv.resets]_vars

(***************************************************************************)
(* C29 - frames reach the rule logic in strictly increasing frame-index    *)
(* order and each frame at most once: whenever a detection task hands a    *)
(* newly read frame to the GameManager, its frame index is greater than    *)
(* the index of the frame handed to that game before it.                   *)
(***************************************************************************)
C29_FramesInIncreasingOrder ==
    [][\A t \in 1..MaxTasks :
        (/\ last_call'.op = "frame"
         /\ last_call'.arg = t
         /\ srv'.tasks[t].frame_idx # srv.tasks[t].frame_idx)
            => srv'.last_frame > srv.last_frame]_vars

(***************************************************************************)
(* C30 - is_in_break_grace_period is True only during turn 1 of the game:  *)
(* once finalize_turn has ended a turn, by a turn switch or by a turn      *)
(* continuation, it returns False.                                         *)
(***************************************************************************)
C30_GraceEndsWithFirstTurn ==
    [][(/\ last_call'.op = "finalize_turn"
        /\ last_call'.ret.event \in {"turn_change", "turn_continue"})
            => ~is_in_break_grace_period(gm')]_vars

(***************************************************************************)
(* C31 - a post-contact pot is marked valid exactly when the first ball    *)
(* contacted in the turn was the lowest ball on the table at the moment of *)
(* the contact: where every contact is with the lowest ball, every pot     *)
(* after contact (of a ball other than 9) is valid and has no foul reason, *)
(* the second pot of a turn included.                                      *)
(***************************************************************************)
C31_PotAfterLegalContactIsValid ==
    [][last_call'.op = "update_ball_tracking"
        => \A i \in 1..Len(last_call'.ret.events) :
             LET e == last_call'.ret.events[i]
             IN  (e.event = "potted" /\ ~e.pre_contact /\ e.ball # NINE)
                    => (e.valid /\ ~e.has_foul_reason)]_vars

(***************************************************************************)
(* C32 - the real-time loop hands to process_collision exactly the         *)
(* collisions that one run of detect_collision over the complete frame     *)
(* sequence returns, each exactly once, and no two of them reference the   *)
(* same ball within the 2-frame merge gap.                                 *)
(***************************************************************************)
C32_RealTimeMatchesCompleteRun ==
    last_call.op = "real_time_detection_task"
        => LET handed == last_call.ret.handed
               complete == last_call.ret.complete
           IN  /\ {CollisionId(handed[i]) : i \in 1..Len(handed)}
                    = {CollisionId(complete[i]) : i \in 1..Len(complete)}
               /\ \A i, j \in 1..Len(handed) :
                    (i # j /\ handed[i].ball = handed[j].ball)
                        => \/ handed[i].frame_idx - handed[j].frame_idx > max_gap
                           \/ handed[j].frame_idx - handed[i].frame_idx > max_gap

(***************************************************************************)
(* C33 - once a shot has started, if no ball moves during stable_frames    *)
(* consecutive detect_motion calls the shot ends: is_shooting is False and *)
(* is_shot_ended() returns True.                                           *)
(***************************************************************************)
C33_ShotEndsWhenBallsRest ==
    (/\ motion_detector.shot_start_frame # None
     /\ last_call.op = "detect_motion"
     /\ last_call.ret.still >= stable_frames)
        => (~motion_detector.is_shooting /\ is_shot_ended(motion_detector))

(***************************************************************************)
(* C34 - the three-thread pipeline always terminates: under fair           *)
(* scheduling every thread eventually exits, so that the three joins of    *)
(* main return.                                                            *)
(***************************************************************************)
C34_PipelineTerminates ==
    <>(pipe.capture = "done" /\ pipe.detect = "done" /\ pipe.post = "done")

(***************************************************************************)
(* C35 - while the match is playing, lowest_ball is a member of            *)
(* balls_on_table and is its minimum.                                      *)
(***************************************************************************)
C35_LowestIsMinOfBallsOnTable ==
    Playing => /\ gm.lowest_ball \in gm.balls_on_table
               /\ \A b \in gm.balls_on_table : gm.lowest_ball <= b

(***************************************************************************)
(* C36 - the game can always still be won: in every state with the match   *)
(* playing, ball 9 is in balls_on_table.                                   *)
(***************************************************************************)
C36_NineOnTableWhilePlaying ==
    Playing => NINE \in gm.balls_on_table

\* the number of times ball b occurs in the list s
Occurrences(s, b) == Cardinality({i \in DOMAIN s : s[i] = b})

\* the number of places that hold ball b: the table and the potted lists
Places(b) ==
    (IF b \in gm.balls_on_table THEN 1 ELSE 0)
    + (IF gm.players = <<>> THEN 0
       ELSE Occurrences(gm.players[1].potted_balls, b)
            + Occurrences(gm.players[2].potted_balls, b))

(***************************************************************************)
(* C37 - in every state each ball is in at most one of balls_on_table,     *)
(* player 1's potted list and player 2's potted list, and at most once in  *)
(* a potted list; after process_ball_reappearance(b), b is in              *)
(* balls_on_table and in neither potted list nor in last_potted_balls.     *)
(***************************************************************************)
C37_BallInOnePlace ==
    /\ \A b \in Balls : Places(b) <= 1
    /\ last_call.op = "process_ball_reappearance"
        => /\ last_call.arg \in gm.balls_on_table
           /\ Places(last_call.arg) = 1
           /\ Occurrences(gm.last_potted_balls, last_call.arg) = 0

(***************************************************************************)
(* C38 - within the processing of one frame by the real-time loop at most  *)
(* one foul is charged and the active player changes at most once.         *)
(***************************************************************************)
C38_OneFoulPerFrame ==
    last_call.op = "frame_iteration"
        => /\ Occurrences(gm.events, "foul") <= 1
           /\ Occurrences(gm.events, "turn_change") <= 1

(***************************************************************************)
(* C39 - after every BallTracker.update call, for every ball: state        *)
(* ON_TABLE implies missing_frames = 0; state MISSING implies              *)
(* 1 <= missing_frames <= MISSING_THRESHOLD - 1 and last_seen_frame > 0;   *)
(* state POTTED implies missing_frames = MISSING_THRESHOLD; and            *)
(* missing_frames does not change while the ball stays POTTED.             *)
(***************************************************************************)
C39_TrackerStateInvariants ==
    [][last_call'.op = "BallTracker.update"
       => \A b \in Balls :
            LET old == gm.ball_tracker.ball_states[b]
                new == gm'.ball_tracker.ball_states[b]
            IN  /\ new.state = "on_table" => new.missing_frames = 0
                /\ new.state = "missing"
                     => /\ 1 <= new.missing_frames
                        /\ new.missing_frames <= MISSING_THRESHOLD - 1
                        /\ new.last_seen_frame > 0
                /\ new.state = "potted" => new.missing_frames = MISSING_THRESHOLD
                /\ (old.state = "potted" /\ new.state = "potted")
                     => new.missing_frames = old.missing_frames]_vars

\* an update has left a ball POTTED that was POTTED before it, and another
\* ball MISSING
C39_Witness ==
    /\ last_call.op = "BallTracker.update"
    /\ \E b \in Balls :
        /\ gm.ball_tracker.ball_states[b].state = "potted"
        /\ ~SeqContains(last_call.ret.newly_potted, b)
    /\ \E b \in Balls : gm.ball_tracker.ball_states[b].state = "missing"

====
